---------------------------- MODULE Spec2Model ----------------------------
(***************************************************************************)
(* A model of the DREAS security-governance core: the AgentCoordinator     *)
(* (src/src/agents/coordinator.rs) with the prompt and response pipelines  *)
(* it dispatches to, the KeyEscrow (src/src/security/escrow.rs) and the    *)
(* AuditLogger ledger (src/src/security/audit.rs).                         *)
(*                                                                         *)
(* Texts are the strings "ENCRYPTED:"^pre followed by n filler characters, *)
(* written [pre |-> p, n |-> n]; uuids are named by the order in which     *)
(* Uuid::new_v4 produced them.  Every step records in `last` the call that *)
(* was made and what it returned to its caller.                            *)
(***************************************************************************)
EXTENDS Naturals, Integers, Sequences, FiniteSets, TLC

VARIABLES
    prompt_agents,      \* AgentCoordinator.prompt_agents: uuid -> PromptAgent
    response_agents,    \* AgentCoordinator.response_agents: uuid -> ResponseAgent
    command_channel,    \* commands sent on the unbounded channel, not yet received
    receiver,           \* the UnboundedReceiver: "held", "looping" or "dropped"
    uuid_count,         \* how many uuids the coordinator has drawn from Uuid::new_v4
    authorized_parties, \* KeyEscrow.authorized_parties (a Vec: order, repeats)
    minimum_signatures, \* KeyEscrow.minimum_signatures
    escrow_data,        \* KeyEscrow.escrow_data: key id -> EscrowEntry
    now,                \* chrono::Utc::now()
    audit_entries,      \* AuditLogger.audit_entries
    audit_uuid_count,   \* how many entry ids the ledger has drawn from Uuid::new_v4
    retention_days,     \* AuditLogger.retention_days
    encryption_enabled, \* the encryption_enabled flag of each agent its caller holds
    users,              \* IdentityManager.users: username -> User
    roles,              \* IdentityManager.roles: role name -> Role
    sessions,           \* IdentityManager.sessions: session id -> UserSession
    identity_uuid_count, \* how many uuids the identity manager has drawn
    read_guards,        \* per registry: the read guards of its RwLock now held
    write_guard,        \* per registry: the write guard of its RwLock is held
    dispatches,         \* per calling task: where its process_* call stands
    consumer,           \* where the iteration of start_event_loop stands
    last                \* the call made by the latest step and its outcome

coordVars  == <<prompt_agents, response_agents, command_channel, receiver, uuid_count>>
escrowVars == <<authorized_parties, minimum_signatures, escrow_data>>
ledgerVars == <<audit_entries, audit_uuid_count, retention_days>>
agentVars == <<encryption_enabled>>
identityVars == <<users, roles, sessions, identity_uuid_count>>
lockVars == <<read_guards, write_guard, dispatches, consumer>>
vars == <<prompt_agents, response_agents, command_channel, receiver, uuid_count,
          authorized_parties, minimum_signatures, escrow_data, now,
          audit_entries, audit_uuid_count, retention_days, encryption_enabled,
          users, roles, sessions, identity_uuid_count,
          read_guards, write_guard, dispatches, consumer, last>>

-----------------------------------------------------------------------------
(* Bounds of the model *)

\* commands that may wait in the (unbounded) channel at once
MaxQueue == 2
\* uuids the coordinator draws in one run
MaxUuids == 2
\* the clock runs from 0 to MaxTime
MaxTime == 1
\* entries the ledger is given in one run
MaxLedger == 2
\* the ledgers are constructed with 0 to MaxRetention days of retention
MaxRetention == 1
\* plaintexts given to the key abstraction have up to MaxPlainLen bytes
MaxPlainLen == 3
\* uuids the identity manager draws for users and sessions in one run
MaxIdentityUuids == 3

(* Program constants *)

\* prompt.len() > 10000 is "Prompt too long"
MaxPromptLen == 10000
\* response.len() > 50000 is "Response too long"
MaxResponseLen == 50000
\* "ENCRYPTED:".len()
EncPrefixLen == 10
\* audit_log_retention_days: 365, the retention of the default configuration
DefaultRetentionDays == 365

-----------------------------------------------------------------------------
(* Results: DreasResult<T> *)

Ok(v) == [ok |-> TRUE, value |-> v]
Err(kind, msg) == [ok |-> FALSE, kind |-> kind, msg |-> msg]
ErrAbout(kind, msg, about) == [ok |-> FALSE, kind |-> kind, msg |-> msg, about |-> about]

-----------------------------------------------------------------------------
(* Texts *)

StrLen(s) == EncPrefixLen * s.pre + s.n

EmptyText   == [pre |-> 0, n |-> 0]
PlainText   == [pre |-> 0, n |-> 11]
WrappedText == [pre |-> 1, n |-> 13]
LongText    == [pre |-> 0, n |-> MaxPromptLen + 1]

\* the numbers of filler characters around the limits of the two pipelines
TextLengths ==
    {0, 1, MaxPromptLen - EncPrefixLen, MaxPromptLen, MaxPromptLen + 1,
     MaxResponseLen - EncPrefixLen, MaxResponseLen - EncPrefixLen + 1,
     MaxResponseLen, MaxResponseLen + 1}

\* every text of the model: none, one or two prefixes before the filler
Texts ==
    {EmptyText, PlainText, WrappedText, LongText}
    \cup {[pre |-> p, n |-> n] : p \in 0..2, n \in TextLengths}

\* the texts callers and commands hand to the coordinator's dispatch
DispatchTexts == {EmptyText, PlainText}

-----------------------------------------------------------------------------
(* Agents: PromptAgent and ResponseAgent hold their own uuid (drawn by     *)
(* ::new before registration) and the encryption flag.                     *)

Agents == {[id |-> 101, encryption_enabled |-> TRUE],
           [id |-> 102, encryption_enabled |-> FALSE]}

\* the agents a caller holds and calls itself: two PromptAgents and two
\* ResponseAgents, named by their own uuids
HeldPromptAgents == {201, 202}
HeldResponseAgents == {203, 204}
HeldAgents == HeldPromptAgents \cup HeldResponseAgents

\* the agent a caller holds under id, as it is now
Held(id) == [id |-> id, encryption_enabled |-> encryption_enabled[id]]

(* PromptAgent *)

validate_prompt_LengthOnly(prompt) ==
    IF StrLen(prompt) > MaxPromptLen THEN Err("AgentCoordination", "Prompt too long")
    ELSE Ok("unit")
validate_prompt(prompt) ==
    IF StrLen(prompt) = 0 THEN Err("AgentCoordination", "Prompt cannot be empty")
    ELSE IF StrLen(prompt) > MaxPromptLen THEN Err("AgentCoordination", "Prompt too long")
    ELSE Ok("unit")

encrypt_prompt(prompt) == [pre |-> prompt.pre + 1, n |-> prompt.n]

\* the JSON that audit_prompt_processing hands to tracing::info!
audit_prompt_processing(agent, original, encrypted) ==
    [agent_id |-> agent.id, action |-> "prompt_processed",
     prompt_length |-> StrLen(original), encrypted_length |-> StrLen(encrypted)]

\* PromptAgent::process_prompt: what it returns, what it traces and the steps
\* of the pipeline it ran
PromptAgent_process_prompt(agent, prompt) ==
    IF ~validate_prompt(prompt).ok
    THEN [ret |-> validate_prompt(prompt), traced |-> <<>>, steps |-> <<"validate">>]
    ELSE LET encrypted == IF agent.encryption_enabled THEN encrypt_prompt(prompt)
                          ELSE prompt
         IN  [ret |-> Ok([tag |-> "Processed prompt: ", body |-> prompt]),
              traced |-> <<audit_prompt_processing(agent, prompt, encrypted)>>,
              steps |-> IF agent.encryption_enabled
                        THEN <<"validate", "encrypt", "audit">>
                        ELSE <<"validate", "audit">>]

(* ResponseAgent *)

validate_response(response) ==
    IF StrLen(response) = 0 THEN Err("AgentCoordination", "Response cannot be empty")
    ELSE IF StrLen(response) > MaxResponseLen THEN Err("AgentCoordination", "Response too long")
    ELSE Ok("unit")

decrypt_response(encrypted) ==
    IF encrypted.pre > 0
    THEN Ok([pre |-> encrypted.pre - 1, n |-> encrypted.n])
    ELSE Err("AgentCoordination", "Invalid encrypted response format")

audit_response_processing(agent, encrypted, decrypted) ==
    [agent_id |-> agent.id, action |-> "response_processed",
     encrypted_length |-> StrLen(encrypted), decrypted_length |-> StrLen(decrypted)]

ResponseAgent_process_response_ValidateFirst(agent, response) ==
    IF ~validate_response(response).ok
    THEN [ret |-> validate_response(response), traced |-> <<>>, steps |-> <<"validate">>]
    ELSE IF agent.encryption_enabled /\ ~decrypt_response(response).ok
    THEN [ret |-> decrypt_response(response), traced |-> <<>>,
          steps |-> <<"validate", "decrypt">>]
    ELSE LET decrypted == IF agent.encryption_enabled
                          THEN decrypt_response(response).value
                          ELSE response
         IN  [ret |-> Ok([tag |-> "Processed response: ", body |-> decrypted]),
              traced |-> <<audit_response_processing(agent, response, decrypted)>>,
              steps |-> IF agent.encryption_enabled
                        THEN <<"validate", "decrypt", "audit">>
                        ELSE <<"validate", "audit">>]
ResponseAgent_process_response(agent, response) ==
    IF agent.encryption_enabled /\ ~decrypt_response(response).ok
    THEN [ret |-> decrypt_response(response), traced |-> <<>>, steps |-> <<"decrypt">>]
    ELSE LET decrypted == IF agent.encryption_enabled
                          THEN decrypt_response(response).value
                          ELSE response
             begun == IF agent.encryption_enabled THEN <<"decrypt", "validate">>
                      ELSE <<"validate">>
         IN  IF ~validate_response(decrypted).ok
             THEN [ret |-> validate_response(decrypted), traced |-> <<>>, steps |-> begun]
             ELSE [ret |-> Ok([tag |-> "Processed response: ", body |-> decrypted]),
                   traced |-> <<audit_response_processing(agent, response, decrypted)>>,
                   steps |-> Append(begun, "audit")]

\* a process_prompt call made on an agent itself
AgentProcessPrompt ==
    \E id \in HeldPromptAgents, prompt \in Texts :
        /\ last' = [op |-> "PromptAgent::process_prompt", agent |-> Held(id),
                    text |-> prompt, out |-> PromptAgent_process_prompt(Held(id), prompt)]
        /\ UNCHANGED <<coordVars, escrowVars, now, ledgerVars, agentVars, identityVars, lockVars>>

\* a process_response call made on an agent itself
AgentProcessResponse ==
    \E id \in HeldResponseAgents, response \in Texts :
        /\ last' = [op |-> "ResponseAgent::process_response", agent |-> Held(id),
                    text |-> response,
                    out |-> ResponseAgent_process_response(Held(id), response)]
        /\ UNCHANGED <<coordVars, escrowVars, now, ledgerVars, agentVars, identityVars, lockVars>>

\* PromptAgent::set_encryption / ResponseAgent::set_encryption
set_encryption_All(flags, id, enabled) == [a \in DOMAIN flags |-> enabled]
set_encryption(flags, id, enabled) == [flags EXCEPT ![id] = enabled]

SetEncryption ==
    \E id \in HeldAgents, enabled \in BOOLEAN :
        /\ encryption_enabled' = set_encryption(encryption_enabled, id, enabled)
        /\ last' = [op |-> "set_encryption", agent_id |-> id, enabled |-> enabled]
        /\ UNCHANGED <<coordVars, escrowVars, now, ledgerVars, identityVars, lockVars>>

NextAgents ==
    \/ AgentProcessPrompt
    \/ AgentProcessResponse
    \/ SetEncryption

-----------------------------------------------------------------------------
(* AgentCoordinator *)

\* every uuid a caller may present to a dispatch
Uuids == 1..MaxUuids

\* Uuid::new_v4(): the uuid drawn after n others
NewV4Repeating(n) == IF n = 0 THEN 1 ELSE n
NewV4(n) == n + 1

\* mpsc::UnboundedSender::send: refused exactly when the receiver is gone
SendIgnoringClose(rx) == TRUE
SendAccepted(rx) == rx # "dropped"

\* mpsc::UnboundedReceiver::recv: which queued command is handed out
RecvNewest(q) == Len(q)
RecvIndex(q) == 1

Without(q, i) == [j \in 1..(Len(q) - 1) |-> IF j < i THEN q[j] ELSE q[j + 1]]

\* HashMap::get: Some(agent) as <<agent>>, None as <<>>
Lookup(registry, agent_id) ==
    IF agent_id \in DOMAIN registry THEN <<registry[agent_id]>> ELSE <<>>

\* HashMap::insert
Insert(registry, id, agent) ==
    [k \in DOMAIN registry \cup {id} |-> IF k = id THEN agent ELSE registry[k]]

\* AgentCoordinator::process_prompt
Coordinator_process_prompt_Silent(agent_id, prompt) ==
    LET found == Lookup(prompt_agents, agent_id)
    IN  IF found # <<>>
        THEN PromptAgent_process_prompt(found[1], prompt)
        ELSE [ret |-> Ok([tag |-> "Processed prompt: ", body |-> EmptyText]),
              traced |-> <<>>, steps |-> <<>>]
Coordinator_process_prompt(agent_id, prompt) ==
    LET found == Lookup(prompt_agents, agent_id)
    IN  IF found # <<>>
        THEN PromptAgent_process_prompt(found[1], prompt)
        ELSE [ret |-> ErrAbout("AgentCoordination", "Prompt agent not found", agent_id),
              traced |-> <<>>, steps |-> <<>>]

\* AgentCoordinator::process_response
Coordinator_process_response(agent_id, response) ==
    LET found == Lookup(response_agents, agent_id)
    IN  IF found # <<>>
        THEN ResponseAgent_process_response(found[1], response)
        ELSE [ret |-> ErrAbout("AgentCoordination", "Response agent not found", agent_id),
              traced |-> <<>>, steps |-> <<>>]

\* whether the event loop leaves its while-loop after this command
BreaksOnFailure(command, outcome) ==
    command.type = "Shutdown" \/ ~outcome.ret.ok
NeverBreaks(command, outcome) == FALSE
Breaks(command, outcome) == command.type = "Shutdown"

\* the command a register_* call sends
RegisterCommand(type, id, agent) == [type |-> type, id |-> id, agent |-> agent]

\* register_prompt_agent / register_response_agent: draw a uuid, send, return
Register(op, type, agent) ==
    /\ uuid_count < MaxUuids
    /\ LET id == NewV4(uuid_count)
       IN  /\ uuid_count' = uuid_count + 1
           /\ IF SendAccepted(receiver)
              THEN /\ Len(command_channel) < MaxQueue
                   /\ command_channel' = Append(command_channel, RegisterCommand(type, id, agent))
                   /\ last' = [op |-> op, ret |-> Ok(id)]
              ELSE /\ command_channel' = command_channel
                   /\ last' = [op |-> op,
                               ret |-> Err("AgentCoordination",
                                           "Failed to send registration command")]
    /\ UNCHANGED <<prompt_agents, response_agents, receiver>>
    /\ UNCHANGED <<escrowVars, now, ledgerVars, agentVars, identityVars, lockVars>>

RegisterPromptAgent ==
    \E agent \in Agents : Register("register_prompt_agent", "RegisterPromptAgent", agent)

RegisterResponseAgent ==
    \E agent \in Agents : Register("register_response_agent", "RegisterResponseAgent", agent)

\* the agent uuid that ProcessPrompt / ProcessResponse commands name
CommandUuids == {1}

\* the other CoordinatorCommand variants, sent by a holder of the sender
SentCommands ==
    {[type |-> "Shutdown"]}
    \cup {[type |-> t, agent_id |-> a, text |-> s] :
             t \in {"ProcessPrompt", "ProcessResponse"}, a \in CommandUuids,
             s \in DispatchTexts}

\* command_sender.send(command) by a holder of the sender
Send(command) ==
    /\ SendAccepted(receiver)
    /\ Len(command_channel) < MaxQueue
    /\ command_channel' = Append(command_channel, command)
    /\ last' = [op |-> "send"]
    /\ UNCHANGED <<prompt_agents, response_agents, receiver, uuid_count>>
    /\ UNCHANGED <<escrowVars, now, ledgerVars, agentVars, identityVars, lockVars>>

SendCommand == \E command \in SentCommands : Send(command)

\* start_event_loop is called with the receiver that new() returned
StartEventLoop ==
    /\ receiver = "held"
    /\ receiver' = "looping"
    /\ last' = [op |-> "start_event_loop"]
    /\ UNCHANGED <<prompt_agents, response_agents, command_channel, uuid_count>>
    /\ UNCHANGED <<escrowVars, now, ledgerVars, agentVars, identityVars, lockVars>>

\* the receiver is dropped without ever being looped on
DropReceiver ==
    /\ receiver = "held"
    /\ receiver' = "dropped"
    /\ command_channel' = <<>>
    /\ last' = [op |-> "drop_receiver"]
    /\ UNCHANGED <<prompt_agents, response_agents, uuid_count>>
    /\ UNCHANGED <<escrowVars, now, ledgerVars, agentVars, identityVars, lockVars>>

\* the dispatch the loop makes for a command (none for the other variants)
LoopOutcome(command) ==
    IF command.type = "ProcessPrompt"
    THEN Coordinator_process_prompt(command.agent_id, command.text)
    ELSE IF command.type = "ProcessResponse"
    THEN Coordinator_process_response(command.agent_id, command.text)
    ELSE [ret |-> Ok("unit"), traced |-> <<>>, steps |-> <<>>]

-----------------------------------------------------------------------------
(* KeyEscrow *)

\* Option<T>: None is <<>>, Some(t) is <<t>>
None == <<>>
Some(t) == <<t>>

\* key ids a caller escrows under, and key ids a recovery request may name
EscrowKeyIds == {"k1", "k2"}
RequestKeyIds == {"", "k1", "k2"}

\* encrypted key bytes
Ciphertexts == {"c1", "c2"}

\* signers; a signature is modelled by its signer (its value and timestamp
\* are never read)
SignatureLists ==
    {<<>>, <<"A">>, <<"D">>, <<"A", "B">>, <<"A", "D">>, <<"A", "A">>, <<"E", "D">>}

\* the (requester, reason) pairs of the requests
RequestTexts == {<<"admin1", "Emergency recovery">>, <<"", "Emergency recovery">>,
                 <<"admin1", "">>}

RecoveryRequests ==
    {[requester |-> rr[1], key_id |-> k, reason |-> rr[2], signatures |-> sigs] :
        rr \in RequestTexts, k \in RequestKeyIds, sigs \in SignatureLists}

\* the party lists an escrow is constructed with
PartyLists == {<<"A", "B">>}

Times == 0..MaxTime

\* KeyEscrow::new
KeyEscrow_new_Strict(parties, minimum) ==
    IF Len(parties) <= minimum
    THEN Err("Generic", "Minimum signatures cannot exceed number of authorized parties")
    ELSE Ok([authorized_parties |-> parties, minimum_signatures |-> minimum,
             escrow_data |-> <<>>])
KeyEscrow_new(parties, minimum) ==
    IF Len(parties) < minimum
    THEN Err("Generic", "Minimum signatures cannot exceed number of authorized parties")
    ELSE Ok([authorized_parties |-> parties, minimum_signatures |-> minimum,
             escrow_data |-> <<>>])

\* Vec::contains
Contains(list, x) == \E i \in 1..Len(list) : list[i] = x

\* HashMap::insert on escrow_data
InsertEntryIfAbsent(data, key_id, entry) ==
    [k \in DOMAIN data \cup {key_id} |-> IF k \in DOMAIN data THEN data[k] ELSE entry]
InsertEntry(data, key_id, entry) ==
    [k \in DOMAIN data \cup {key_id} |-> IF k = key_id THEN entry ELSE data[k]]

\* validate_recovery_request
validate_recovery_request(request) ==
    IF request.key_id = "" THEN Err("Generic", "Key ID cannot be empty")
    ELSE IF request.reason = "" THEN Err("Generic", "Recovery reason cannot be empty")
    ELSE IF request.requester = "" THEN Err("Generic", "Requester cannot be empty")
    ELSE Ok("unit")

\* the expiry check of recover_key: chrono::Utc::now() > expires_at
IsExpiredNever(entry, t) == FALSE
IsExpired(entry, t) == entry.expires_at # None /\ t > entry.expires_at[1]

\* validate_signatures
LastUnauthorized(signatures) ==
    signatures[CHOOSE i \in 1..Len(signatures) :
                  /\ ~Contains(authorized_parties, signatures[i])
                  /\ \A j \in (i + 1)..Len(signatures) :
                        Contains(authorized_parties, signatures[j])]
FirstUnauthorized(signatures) ==
    signatures[CHOOSE i \in 1..Len(signatures) :
                  /\ ~Contains(authorized_parties, signatures[i])
                  /\ \A j \in 1..(i - 1) : Contains(authorized_parties, signatures[j])]

validate_signatures_CountOnly(request) ==
    IF Len(request.signatures) < minimum_signatures
    THEN ErrAbout("Authentication", "Insufficient signatures",
                  <<minimum_signatures, Len(request.signatures)>>)
    ELSE Ok("unit")
validate_signatures(request) ==
    IF Len(request.signatures) < minimum_signatures
    THEN ErrAbout("Authentication", "Insufficient signatures",
                  <<minimum_signatures, Len(request.signatures)>>)
    ELSE IF \E i \in 1..Len(request.signatures) :
                ~Contains(authorized_parties, request.signatures[i])
    THEN ErrAbout("Authentication", "Unauthorized signer",
                  FirstUnauthorized(request.signatures))
    ELSE Ok("unit")

\* the JSON that audit_recovery hands to tracing::info!
audit_recovery(request) ==
    [action |-> "key_recovery", requester |-> request.requester,
     key_id |-> request.key_id, reason |-> request.reason,
     signature_count |-> Len(request.signatures)]

\* KeyEscrow::recover_key at time t: what it returns and what it traces
KeyEscrow_recover_key_KeyId(request, t) ==
    IF ~validate_recovery_request(request).ok
    THEN [ret |-> validate_recovery_request(request), traced |-> <<>>]
    ELSE IF request.key_id \notin DOMAIN escrow_data
    THEN [ret |-> ErrAbout("Generic", "Key not found in escrow", request.key_id),
          traced |-> <<>>]
    ELSE IF IsExpired(escrow_data[request.key_id], t)
    THEN [ret |-> Err("Generic", "Escrowed key has expired"), traced |-> <<>>]
    ELSE IF ~validate_signatures(request).ok
    THEN [ret |-> validate_signatures(request), traced |-> <<>>]
    ELSE [ret |-> Ok(escrow_data[request.key_id].key_id),
          traced |-> <<audit_recovery(request)>>]
KeyEscrow_recover_key_SignaturesFirst(request, t) ==
    IF ~validate_recovery_request(request).ok
    THEN [ret |-> validate_recovery_request(request), traced |-> <<>>]
    ELSE IF request.key_id \notin DOMAIN escrow_data
    THEN [ret |-> ErrAbout("Generic", "Key not found in escrow", request.key_id),
          traced |-> <<>>]
    ELSE IF ~validate_signatures(request).ok
    THEN [ret |-> validate_signatures(request), traced |-> <<>>]
    ELSE IF IsExpired(escrow_data[request.key_id], t)
    THEN [ret |-> Err("Generic", "Escrowed key has expired"), traced |-> <<>>]
    ELSE [ret |-> Ok(escrow_data[request.key_id].encrypted_key),
          traced |-> <<audit_recovery(request)>>]
KeyEscrow_recover_key(request, t) ==
    IF ~validate_recovery_request(request).ok
    THEN [ret |-> validate_recovery_request(request), traced |-> <<>>]
    ELSE IF request.key_id \notin DOMAIN escrow_data
    THEN [ret |-> ErrAbout("Generic", "Key not found in escrow", request.key_id),
          traced |-> <<>>]
    ELSE IF IsExpired(escrow_data[request.key_id], t)
    THEN [ret |-> Err("Generic", "Escrowed key has expired"), traced |-> <<>>]
    ELSE IF ~validate_signatures(request).ok
    THEN [ret |-> validate_signatures(request), traced |-> <<>>]
    ELSE [ret |-> Ok(escrow_data[request.key_id].encrypted_key),
          traced |-> <<audit_recovery(request)>>]

\* escrow_key(key_id, encrypted_key, expires_at)
EscrowKey ==
    \E key_id \in EscrowKeyIds, encrypted_key \in Ciphertexts,
       expires_at \in {None} \cup {Some(t) : t \in Times} :
        /\ escrow_data' =
              InsertEntry(escrow_data, key_id,
                          [key_id |-> key_id, encrypted_key |-> encrypted_key,
                           created_at |-> now, expires_at |-> expires_at])
        /\ last' = [op |-> "escrow_key", key_id |-> key_id,
                    encrypted_key |-> encrypted_key, expires_at |-> expires_at,
                    replaced |-> key_id \in DOMAIN escrow_data,
                    out |-> [ret |-> Ok("unit"), traced |-> <<>>]]
        /\ UNCHANGED <<authorized_parties, minimum_signatures, now>>
        /\ UNCHANGED <<coordVars, ledgerVars, agentVars, identityVars, lockVars>>

\* the party lists and thresholds KeyEscrow::new is called with
ConstructionPartyLists == {<<>>, <<"A">>, <<"A", "B">>, <<"A", "A">>}
ConstructionMinimums == 0..3

\* escrow = KeyEscrow::new(parties, minimum)?: the escrow is replaced by the
\* one constructed, and stays as it was when the construction fails
NewKeyEscrow ==
    \E parties \in ConstructionPartyLists, minimum \in ConstructionMinimums :
        LET made == KeyEscrow_new(parties, minimum)
        IN  /\ last' = [op |-> "KeyEscrow::new", parties |-> parties,
                        minimum |-> minimum, ret |-> made]
            /\ authorized_parties' =
                  IF made.ok THEN made.value.authorized_parties ELSE authorized_parties
            /\ minimum_signatures' =
                  IF made.ok THEN made.value.minimum_signatures ELSE minimum_signatures
            /\ escrow_data' = IF made.ok THEN made.value.escrow_data ELSE escrow_data
            /\ UNCHANGED <<coordVars, now, ledgerVars, agentVars, identityVars, lockVars>>

\* recover_key(request)
RecoverKey ==
    \E request \in RecoveryRequests :
        /\ last' = [op |-> "recover_key", request |-> request,
                    out |-> KeyEscrow_recover_key(request, now)]
        /\ UNCHANGED <<escrowVars, now, coordVars, ledgerVars, agentVars, identityVars, lockVars>>

\* time passes
Tick ==
    /\ now < MaxTime
    /\ now' = now + 1
    /\ last' = [op |-> "tick"]
    /\ UNCHANGED <<escrowVars, coordVars, ledgerVars, agentVars, identityVars, lockVars>>

\* the sequences that hold every element of the set once: the orders in which
\* a HashMap may iterate
Orderings(S) ==
    {seq \in [1..Cardinality(S) -> S] :
        \A i, j \in 1..Cardinality(S) : i # j => seq[i] # seq[j]}

\* KeyEscrow::list_escrowed_keys: the vectors it may return
list_escrowed_keys_Unexpiring(data) ==
    Orderings({k \in DOMAIN data : data[k].expires_at = None})
list_escrowed_keys(data) == Orderings(DOMAIN data)

ListEscrowedKeys ==
    \E keys \in list_escrowed_keys(escrow_data) :
        /\ last' = [op |-> "list_escrowed_keys", out |-> keys]
        /\ UNCHANGED <<escrowVars, now, coordVars, ledgerVars, agentVars, identityVars, lockVars>>

\* KeyEscrow::get_escrow_stats
get_escrow_stats(t) ==
    [total_keys |-> Cardinality(DOMAIN escrow_data),
     authorized_parties |-> Len(authorized_parties),
     minimum_signatures |-> minimum_signatures,
     created_at |-> t]

GetEscrowStats ==
    /\ last' = [op |-> "get_escrow_stats", out |-> get_escrow_stats(now)]
    /\ UNCHANGED <<escrowVars, now, coordVars, ledgerVars, agentVars, identityVars, lockVars>>

NextEscrow ==
    \/ EscrowKey
    \/ RecoverKey
    \/ ListEscrowedKeys
    \/ GetEscrowStats
    \/ Tick

-----------------------------------------------------------------------------
(* AuditLogger *)

AuditResults == {"Success", "Failure", "Partial"}

\* AuditLogger::new: the operations logged with the additional warning
sensitive_operations ==
    <<"key_escrow", "key_recovery", "user_authentication", "permission_change",
      "data_encryption", "data_decryption">>

\* the calls made to log_operation: user id, session id, action, resource
\* and result
LoggedCalls ==
    {<<None, None, "key_recovery", "k1", "Failure">>,
     <<Some("user123"), Some("session456"), "data_access", "sensitive_file.txt",
       "Success">>,
     <<Some("user123"), Some("session456"), "key_recovery", "k1", "Success">>,
     <<Some("admin1"), None, "data_access", "k1", "Partial">>}


\* Vec::push
PushFront(entries, entry) == <<entry>> \o entries
PushOverLast(entries, entry) ==
    IF entries = <<>> THEN <<entry>> ELSE [entries EXCEPT ![Len(entries)] = entry]
Push(entries, entry) == Append(entries, entry)

\* log_operation(user_id, session_id, action, resource, result, metadata);
\* the clock of the ledger counts days
LogOperation ==
    \E call \in LoggedCalls :
        /\ audit_uuid_count < MaxLedger
        /\ LET user_id == call[1]
               session_id == call[2]
               action == call[3]
               resource == call[4]
               result == call[5]
               entry_id == NewV4(audit_uuid_count)
               entry == [entry_id |-> entry_id, timestamp |-> now, user_id |-> user_id,
                         session_id |-> session_id, action |-> action,
                         resource |-> resource, result |-> result,
                         ip_address |-> None, user_agent |-> None]
           IN  /\ audit_entries' = Push(audit_entries, entry)
               /\ audit_uuid_count' = audit_uuid_count + 1
               /\ last' = [op |-> "log_operation",
                           args |-> [user_id |-> user_id, session_id |-> session_id,
                                     action |-> action, resource |-> resource,
                                     result |-> result],
                           out |-> [ret |-> Ok(entry_id),
                                    traced |-> IF Contains(sensitive_operations, action)
                                               THEN <<"Sensitive operation detected">>
                                               ELSE <<>>]]
        /\ UNCHANGED <<coordVars, escrowVars, now, retention_days, agentVars, identityVars, lockVars>>

\* the closure of cleanup_old_entries at time t: entry.timestamp > cutoff_date
RetainedAtCutoff(entry, t) == entry.timestamp >= t - retention_days
Retained(entry, t) == entry.timestamp > t - retention_days

\* Vec::retain with that closure
Kept(entries, t) == SelectSeq(entries, LAMBDA entry : Retained(entry, t))

\* cleanup_old_entries()
CleanupOldEntries ==
    /\ audit_entries' = Kept(audit_entries, now)
    /\ last' = [op |-> "cleanup_old_entries",
                out |-> [ret |-> Ok(Len(audit_entries) - Len(Kept(audit_entries, now))),
                         traced |-> IF Len(Kept(audit_entries, now)) < Len(audit_entries)
                                    THEN <<"Cleaned up old audit entries">>
                                    ELSE <<>>]]
    /\ UNCHANGED <<coordVars, escrowVars, now, audit_uuid_count, retention_days,
                   agentVars, identityVars, lockVars>>

\* AuditQuery: the query with every predicate omitted, and the queries made
NoFilter ==
    [start_date |-> None, end_date |-> None, user_id |-> None, action |-> None,
     resource |-> None, result |-> None, limit |-> None]

Queries ==
    {NoFilter,
     [NoFilter EXCEPT !.start_date = Some(1), !.end_date = Some(1)],
     [NoFilter EXCEPT !.start_date = Some(1), !.end_date = Some(0)],
     [NoFilter EXCEPT !.end_date = Some(0), !.limit = Some(1)],
     [NoFilter EXCEPT !.user_id = Some("user123"), !.action = Some("key_recovery")],
     [NoFilter EXCEPT !.user_id = Some("nobody")],
     [NoFilter EXCEPT !.resource = Some("k1"), !.result = Some("Success")],
     [NoFilter EXCEPT !.limit = Some(1)],
     [NoFilter EXCEPT !.limit = Some(0)]}

\* Vec::sort_by(|a, b| b.timestamp.cmp(&a.timestamp)): a stable sort, newest
\* first
RECURSIVE SortNewestFirst(_)
SortNewestFirst(entries) ==
    IF Len(entries) <= 1 THEN entries
    ELSE LET sorted == SortNewestFirst(SubSeq(entries, 1, Len(entries) - 1))
             entry == entries[Len(entries)]
             k == Cardinality({i \in 1..Len(sorted) :
                                 sorted[i].timestamp >= entry.timestamp})
         IN  SubSeq(sorted, 1, k) \o <<entry>> \o SubSeq(sorted, k + 1, Len(sorted))

\* Vec::truncate
Truncate(entries, limit) ==
    IF limit < Len(entries) THEN SubSeq(entries, 1, limit) ELSE entries

\* query_audit_entries(query) upon the entries of the ledger
query_audit_entries_TruncateFirst(entries, query) ==
    LET since == IF query.start_date = None THEN entries
                 ELSE SelectSeq(entries, LAMBDA e : e.timestamp >= query.start_date[1])
        until == IF query.end_date = None THEN since
                 ELSE SelectSeq(since, LAMBDA e : e.timestamp <= query.end_date[1])
        by_user == IF query.user_id = None THEN until
                   ELSE SelectSeq(until, LAMBDA e : e.user_id = Some(query.user_id[1]))
        by_action == IF query.action = None THEN by_user
                     ELSE SelectSeq(by_user, LAMBDA e : e.action = query.action[1])
        by_resource == IF query.resource = None THEN by_action
                       ELSE SelectSeq(by_action, LAMBDA e : e.resource = query.resource[1])
        by_result == IF query.result = None THEN by_resource
                     ELSE SelectSeq(by_resource, LAMBDA e : e.result = query.result[1])
        truncated == IF query.limit = None THEN by_result
                     ELSE Truncate(by_result, query.limit[1])
    IN  Ok(SortNewestFirst(truncated))
query_audit_entries(entries, query) ==
    LET since == IF query.start_date = None THEN entries
                 ELSE SelectSeq(entries, LAMBDA e : e.timestamp >= query.start_date[1])
        until == IF query.end_date = None THEN since
                 ELSE SelectSeq(since, LAMBDA e : e.timestamp <= query.end_date[1])
        by_user == IF query.user_id = None THEN until
                   ELSE SelectSeq(until, LAMBDA e : e.user_id = Some(query.user_id[1]))
        by_action == IF query.action = None THEN by_user
                     ELSE SelectSeq(by_user, LAMBDA e : e.action = query.action[1])
        by_resource == IF query.resource = None THEN by_action
                       ELSE SelectSeq(by_action, LAMBDA e : e.resource = query.resource[1])
        by_result == IF query.result = None THEN by_resource
                     ELSE SelectSeq(by_resource, LAMBDA e : e.result = query.result[1])
        sorted == SortNewestFirst(by_result)
    IN  Ok(IF query.limit = None THEN sorted ELSE Truncate(sorted, query.limit[1]))

QueryAuditEntries ==
    \E query \in Queries :
        /\ last' = [op |-> "query_audit_entries", query |-> query,
                    out |-> [ret |-> query_audit_entries(audit_entries, query),
                             traced |-> <<>>]]
        /\ UNCHANGED <<coordVars, escrowVars, now, ledgerVars, agentVars, identityVars, lockVars>>

\* .iter().filter(..).count()
CountResult(entries, result) == Len(SelectSeq(entries, LAMBDA e : e.result = result))

\* the per-action and per-user counters of generate_report
ActionCounts(entries) ==
    [a \in {entries[i].action : i \in 1..Len(entries)} |->
        Len(SelectSeq(entries, LAMBDA e : e.action = a))]
UserCounts(entries) ==
    [u \in {entries[i].user_id[1] : i \in {j \in 1..Len(entries) :
                                               entries[j].user_id # None}} |->
        Len(SelectSeq(entries, LAMBDA e : e.user_id = Some(u)))]

\* generate_report(start_date, end_date); the success rate, an f64, is the
\* fraction numerator / denominator
generate_report_AllEntries(entries, start_date, end_date) ==
    LET total_operations == Len(entries)
        successful_operations == CountResult(entries, "Success")
    IN  Ok([total_operations |-> total_operations,
            successful_operations |-> successful_operations,
            failed_operations |-> CountResult(entries, "Failure"),
            partial_operations |-> CountResult(entries, "Partial"),
            success_rate |-> IF total_operations > 0
                             THEN [numerator |-> successful_operations * 100,
                                   denominator |-> total_operations]
                             ELSE [numerator |-> 0, denominator |-> 1],
            action_breakdown |-> ActionCounts(entries),
            user_activity |-> UserCounts(entries)])
generate_report(entries, start_date, end_date) ==
    LET found == query_audit_entries(entries,
                     [NoFilter EXCEPT !.start_date = Some(start_date),
                                      !.end_date = Some(end_date)]).value
        total_operations == Len(found)
        successful_operations == CountResult(found, "Success")
    IN  Ok([total_operations |-> total_operations,
            successful_operations |-> successful_operations,
            failed_operations |-> CountResult(found, "Failure"),
            partial_operations |-> CountResult(found, "Partial"),
            success_rate |-> IF total_operations > 0
                             THEN [numerator |-> successful_operations * 100,
                                   denominator |-> total_operations]
                             ELSE [numerator |-> 0, denominator |-> 1],
            action_breakdown |-> ActionCounts(found),
            user_activity |-> UserCounts(found)])

GenerateReport ==
    \E start_date \in Times, end_date \in Times :
        /\ last' = [op |-> "generate_report", start_date |-> start_date,
                    end_date |-> end_date,
                    out |-> [ret |-> generate_report(audit_entries, start_date, end_date),
                             traced |-> <<>>]]
        /\ UNCHANGED <<coordVars, escrowVars, now, ledgerVars, agentVars, identityVars, lockVars>>

\* .iter().map(|e| e.timestamp).min() / .max()
Oldest(entries) ==
    IF entries = <<>> THEN None
    ELSE Some(CHOOSE t \in {entries[i].timestamp : i \in 1..Len(entries)} :
                 \A i \in 1..Len(entries) : t <= entries[i].timestamp)
Newest(entries) ==
    IF entries = <<>> THEN None
    ELSE Some(CHOOSE t \in {entries[i].timestamp : i \in 1..Len(entries)} :
                 \A i \in 1..Len(entries) : t >= entries[i].timestamp)

\* get_audit_stats()
GetAuditStats ==
    /\ last' = [op |-> "get_audit_stats",
                out |-> [total_entries |-> Len(audit_entries),
                         retention_days |-> retention_days,
                         sensitive_operations_tracked |-> Len(sensitive_operations),
                         oldest_entry |-> Oldest(audit_entries),
                         newest_entry |-> Newest(audit_entries)]]
    /\ UNCHANGED <<coordVars, escrowVars, now, ledgerVars, agentVars, identityVars, lockVars>>

\* escrows constructed one after another and filled
NextConstruction ==
    \/ NewKeyEscrow
    \/ EscrowKey

NextLedger ==
    \/ LogOperation
    \/ QueryAuditEntries
    \/ GenerateReport
    \/ GetAuditStats
    \/ CleanupOldEntries
    \/ Tick

-----------------------------------------------------------------------------
(* The key abstraction: security/kms.rs *)

\* Byte strings are sequences of 0..255.

\* the plaintexts up to MaxPlainLen bytes over zero, 'M' and 0xFF, and the
\* b"test data" of test_connection
TestData == <<116, 101, 115, 116, 32, 100, 97, 116, 97>>
Plaintexts ==
    UNION {[1..k -> {0, 77, 255}] : k \in 0..MaxPlainLen} \cup {TestData}

\* the standard alphabet of base64, as ASCII codes
B64Char_UrlSafe(i) ==
    IF i < 26 THEN 65 + i
    ELSE IF i < 52 THEN 97 + (i - 26)
    ELSE IF i < 62 THEN 48 + (i - 52)
    ELSE IF i = 62 THEN 45 ELSE 95
B64Char(i) ==
    IF i < 26 THEN 65 + i
    ELSE IF i < 52 THEN 97 + (i - 26)
    ELSE IF i < 62 THEN 48 + (i - 52)
    ELSE IF i = 62 THEN 43 ELSE 47

\* the value of a symbol of the standard alphabet, -1 for any other byte
B64Index(c) ==
    IF c >= 65 /\ c <= 90 THEN c - 65
    ELSE IF c >= 97 /\ c <= 122 THEN c - 71
    ELSE IF c >= 48 /\ c <= 57 THEN c + 4
    ELSE IF c = 43 THEN 62
    ELSE IF c = 47 THEN 63
    ELSE -1

Pad == 61

\* base64::encode: three bytes to four symbols, the last group padded with '='
RECURSIVE base64_encode(_)
base64_encode(bytes) ==
    IF Len(bytes) = 0 THEN <<>>
    ELSE IF Len(bytes) = 1
    THEN <<B64Char(bytes[1] \div 4), B64Char((bytes[1] % 4) * 16), Pad, Pad>>
    ELSE IF Len(bytes) = 2
    THEN <<B64Char(bytes[1] \div 4),
           B64Char((bytes[1] % 4) * 16 + bytes[2] \div 16),
           B64Char((bytes[2] % 16) * 4), Pad>>
    ELSE <<B64Char(bytes[1] \div 4),
           B64Char((bytes[1] % 4) * 16 + bytes[2] \div 16),
           B64Char((bytes[2] % 16) * 4 + bytes[3] \div 64),
           B64Char(bytes[3] % 64)>>
         \o base64_encode(SubSeq(bytes, 4, Len(bytes)))

\* the bytes of a sequence of symbol values; the bits left over in the last
\* symbol of an incomplete group are dropped
RECURSIVE BytesOfSymbols(_)
BytesOfSymbols(v) ==
    IF Len(v) < 2 THEN <<>>
    ELSE IF Len(v) = 2 THEN <<v[1] * 4 + v[2] \div 16>>
    ELSE IF Len(v) = 3
    THEN <<v[1] * 4 + v[2] \div 16, (v[2] % 16) * 16 + v[3] \div 4>>
    ELSE <<v[1] * 4 + v[2] \div 16, (v[2] % 16) * 16 + v[3] \div 4,
           (v[3] % 4) * 64 + v[4]>>
         \o BytesOfSymbols(SubSeq(v, 5, Len(v)))

\* the bits of the last symbol that belong to no byte
TrailingBits(v) ==
    IF Len(v) % 4 = 2 THEN v[Len(v)] % 16
    ELSE IF Len(v) % 4 = 3 THEN v[Len(v)] % 4
    ELSE 0

\* the padding the decoder asks of the last group: base64::decode decodes
\* with the STANDARD engine, which requires the canonical padding
DecodePaddingModes == {"RequireCanonical"}

\* base64::decode, Ok(bytes) or Err(DecodeError): the complete groups ahead of
\* the last one hold symbols only; the last group is read symbol by symbol,
\* a '=' in its first two places or ahead of a symbol being an invalid byte;
\* then the length, the padding and the bits of the last symbol are checked
base64_decode_AllowTrailingBits(text, padding) ==
    LET n == Len(text)
        last_quad == IF n = 0 THEN 0 ELSE IF n % 4 = 0 THEN 4 ELSE n % 4
        complete == SubSeq(text, 1, n - last_quad)
        suffix == SubSeq(text, n - last_quad + 1, n)
        padding_bytes_count == Cardinality({i \in 1..Len(suffix) : suffix[i] = Pad})
        morsels_in_leftover == Len(suffix) - padding_bytes_count
        symbols == complete \o SubSeq(suffix, 1, morsels_in_leftover)
        values == [i \in 1..Len(symbols) |-> B64Index(symbols[i])]
    IN  IF \E i \in 1..Len(complete) : B64Index(complete[i]) = -1
        THEN Err("DecodeError", "InvalidByte")
        ELSE IF \E i \in 1..Len(suffix) :
                   \/ suffix[i] = Pad /\ i <= 2
                   \/ /\ suffix[i] # Pad
                      /\ \/ \E j \in 1..(i - 1) : suffix[j] = Pad
                         \/ B64Index(suffix[i]) = -1
        THEN Err("DecodeError", "InvalidByte")
        ELSE IF n > 0 /\ morsels_in_leftover < 2
        THEN Err("DecodeError", "InvalidLength")
        ELSE IF \/ /\ padding = "RequireCanonical"
                   /\ (padding_bytes_count + morsels_in_leftover) % 4 # 0
                \/ padding = "RequireNone" /\ padding_bytes_count > 0
        THEN Err("DecodeError", "InvalidPadding")
        ELSE Ok(BytesOfSymbols(values))
base64_decode(text, padding) ==
    LET n == Len(text)
        last_quad == IF n = 0 THEN 0 ELSE IF n % 4 = 0 THEN 4 ELSE n % 4
        complete == SubSeq(text, 1, n - last_quad)
        suffix == SubSeq(text, n - last_quad + 1, n)
        padding_bytes_count == Cardinality({i \in 1..Len(suffix) : suffix[i] = Pad})
        morsels_in_leftover == Len(suffix) - padding_bytes_count
        symbols == complete \o SubSeq(suffix, 1, morsels_in_leftover)
        values == [i \in 1..Len(symbols) |-> B64Index(symbols[i])]
    IN  IF \E i \in 1..Len(complete) : B64Index(complete[i]) = -1
        THEN Err("DecodeError", "InvalidByte")
        ELSE IF \E i \in 1..Len(suffix) :
                   \/ suffix[i] = Pad /\ i <= 2
                   \/ /\ suffix[i] # Pad
                      /\ \/ \E j \in 1..(i - 1) : suffix[j] = Pad
                         \/ B64Index(suffix[i]) = -1
        THEN Err("DecodeError", "InvalidByte")
        ELSE IF n > 0 /\ morsels_in_leftover < 2
        THEN Err("DecodeError", "InvalidLength")
        ELSE IF \/ /\ padding = "RequireCanonical"
                   /\ (padding_bytes_count + morsels_in_leftover) % 4 # 0
                \/ padding = "RequireNone" /\ padding_bytes_count > 0
        THEN Err("DecodeError", "InvalidPadding")
        ELSE IF TrailingBits(values) # 0
        THEN Err("DecodeError", "InvalidLastSymbol")
        ELSE Ok(BytesOfSymbols(values))

\* a continuation byte of UTF-8
Continuation(b) == b >= 128 /\ b <= 191

\* String::from_utf8 accepts the bytes
RECURSIVE Utf8Valid(_)
Utf8Valid(bytes) ==
    IF bytes = <<>> THEN TRUE
    ELSE LET b == bytes[1]
             n == Len(bytes)
         IN  IF b < 128 THEN Utf8Valid(Tail(bytes))
             ELSE IF b >= 194 /\ b <= 223
             THEN /\ n >= 2 /\ Continuation(bytes[2])
                  /\ Utf8Valid(SubSeq(bytes, 3, n))
             ELSE IF b >= 224 /\ b <= 239
             THEN /\ n >= 3
                  /\ Continuation(bytes[2]) /\ Continuation(bytes[3])
                  /\ b = 224 => bytes[2] >= 160
                  /\ b = 237 => bytes[2] <= 159
                  /\ Utf8Valid(SubSeq(bytes, 4, n))
             ELSE IF b >= 240 /\ b <= 244
             THEN /\ n >= 4
                  /\ Continuation(bytes[2]) /\ Continuation(bytes[3])
                  /\ Continuation(bytes[4])
                  /\ b = 240 => bytes[2] >= 144
                  /\ b = 244 => bytes[2] <= 143
                  /\ Utf8Valid(SubSeq(bytes, 5, n))
             ELSE FALSE

\* KmsClient::new: the five identifying fields, each empty or as in the
\* repository's test
KmsClients ==
    [project_id : {"", "test-project"}, location : {"", "us-central1"},
     key_ring : {"", "test-keyring"}, key_name : {"", "test-key"},
     key_version : {"", "1"}]

\* the client of the repository's test, and the clients that encrypt and
\* decrypt: that one, and one without a key version
TestClient ==
    [project_id |-> "test-project", location |-> "us-central1",
     key_ring |-> "test-keyring", key_name |-> "test-key", key_version |-> "1"]
CryptClients == {TestClient, [TestClient EXCEPT !.key_version = ""]}

\* KmsClient::get_key_id: the five fields in the order of the format string
get_key_id(client) ==
    <<"projects", client.project_id, "locations", client.location,
      "keyRings", client.key_ring, "cryptoKeys", client.key_name,
      "cryptoKeyVersions", client.key_version>>

\* KmsClient::encrypt
KmsClient_encrypt(client, plaintext) ==
    Ok([ciphertext |-> base64_encode(plaintext),
        key_id |-> get_key_id(client),
        algorithm |-> "GOOGLE_SYMMETRIC_ENCRYPTION"])

\* KmsClient::decrypt
KmsClient_decrypt(client, ciphertext, padding) ==
    IF ~Utf8Valid(ciphertext)
    THEN Err("KmsDecryption", "Invalid ciphertext")
    ELSE LET decoded == base64_decode(ciphertext, padding)
         IN  IF ~decoded.ok
             THEN ErrAbout("KmsDecryption", "Failed to decode ciphertext", decoded.msg)
             ELSE Ok([plaintext |-> decoded.value, key_id |-> get_key_id(client)])

\* KmsClient::validate_config
validate_config_KeyVersionFirst(client) ==
    IF client.key_version = ""
    THEN Err("Configuration", "Key version cannot be empty")
    ELSE IF client.key_name = ""
    THEN Err("Configuration", "Key name cannot be empty")
    ELSE IF client.key_ring = ""
    THEN Err("Configuration", "Key ring cannot be empty")
    ELSE IF client.location = ""
    THEN Err("Configuration", "Location cannot be empty")
    ELSE IF client.project_id = ""
    THEN Err("Configuration", "Project ID cannot be empty")
    ELSE Ok(<<>>)
validate_config(client) ==
    IF client.project_id = ""
    THEN Err("Configuration", "Project ID cannot be empty")
    ELSE IF client.location = ""
    THEN Err("Configuration", "Location cannot be empty")
    ELSE IF client.key_ring = ""
    THEN Err("Configuration", "Key ring cannot be empty")
    ELSE IF client.key_name = ""
    THEN Err("Configuration", "Key name cannot be empty")
    ELSE IF client.key_version = ""
    THEN Err("Configuration", "Key version cannot be empty")
    ELSE Ok(<<>>)

\* KmsClient::test_connection
test_connection(client, padding) ==
    IF ~validate_config(client).ok THEN validate_config(client)
    ELSE LET encrypted == KmsClient_encrypt(client, TestData)
         IN  IF ~encrypted.ok THEN encrypted
             ELSE LET decrypted ==
                         KmsClient_decrypt(client, encrypted.value.ciphertext, padding)
                  IN  IF ~decrypted.ok THEN decrypted
                      ELSE IF TestData # decrypted.value.plaintext
                      THEN Err("KmsEncryption", "Encryption/decryption test failed")
                      ELSE Ok(<<>>)

\* byte strings that no encrypt returns: 0xFF; "QQ=" and 0xFF; the two bytes
\* of U+00E9; the first of them alone; "!!!!"; "Q"; "QR=="; "TQ" and "TU0",
\* which lack their padding; "Q=Q="; "===="; "TQ==TQ=="; "TQ==" and a line
\* feed; "TU1N" and a space
ForeignCiphertexts ==
    {<<255>>, <<81, 81, 61, 255>>, <<195, 169>>, <<195>>, <<33, 33, 33, 33>>,
     <<81>>, <<81, 82, 61, 61>>, <<84, 81>>, <<84, 85, 48>>, <<81, 61, 81, 61>>,
     <<61, 61, 61, 61>>, <<84, 81, 61, 61, 84, 81, 61, 61>>,
     <<84, 81, 61, 61, 10>>, <<84, 85, 49, 78, 32>>}

\* the byte strings given to decrypt: every ciphertext of encrypt, and the
\* foreign ones
KmsCiphertexts ==
    {base64_encode(plaintext) : plaintext \in Plaintexts} \cup ForeignCiphertexts

KmsEncrypt ==
    \E client \in CryptClients, plaintext \in Plaintexts :
        /\ last' = [op |-> "KmsClient::encrypt", client |-> client,
                    plaintext |-> plaintext,
                    out |-> KmsClient_encrypt(client, plaintext)]
        /\ UNCHANGED <<coordVars, escrowVars, now, ledgerVars, agentVars, identityVars, lockVars>>

KmsDecrypt ==
    \E client \in CryptClients, ciphertext \in KmsCiphertexts,
       padding \in DecodePaddingModes :
        /\ last' = [op |-> "KmsClient::decrypt", client |-> client,
                    ciphertext |-> ciphertext,
                    out |-> KmsClient_decrypt(client, ciphertext, padding)]
        /\ UNCHANGED <<coordVars, escrowVars, now, ledgerVars, agentVars, identityVars, lockVars>>

KmsValidateConfig ==
    \E client \in KmsClients :
        /\ last' = [op |-> "KmsClient::validate_config", client |-> client,
                    out |-> validate_config(client)]
        /\ UNCHANGED <<coordVars, escrowVars, now, ledgerVars, agentVars, identityVars, lockVars>>

KmsTestConnection ==
    \E client \in KmsClients, padding \in DecodePaddingModes :
        /\ last' = [op |-> "KmsClient::test_connection", client |-> client,
                    out |-> test_connection(client, padding)]
        /\ UNCHANGED <<coordVars, escrowVars, now, ledgerVars, agentVars, identityVars, lockVars>>

NextKms ==
    \/ KmsEncrypt
    \/ KmsDecrypt
    \/ KmsValidateConfig
    \/ KmsTestConnection

-----------------------------------------------------------------------------
(* Identity and access: security/identity.rs *)

\* Uuid::new_v4().to_string(), in the order of the draws
UuidStrings == <<"uuid-1", "uuid-2", "uuid-3", "uuid-4", "uuid-5", "uuid-6">>

\* chrono::Duration::hours(24), the clock counting days
SessionDays == 1

\* user names: the one of the repository's test, and one that reads like the
\* first uuid drawn
Usernames == {"testuser", "uuid-1"}
RoleLists == {<<"user">>}
PermissionLists == {<<>>, <<"read_data">>}
SessionIds == {UuidStrings[i] : i \in 1..MaxIdentityUuids}

\* IdentityManager::create_user: the user, stored under its name
NewUser(id, username, user_roles, t) ==
    [id |-> id, username |-> username, email |-> "test@example.com",
     roles |-> user_roles, permissions |-> <<>>, created_at |-> t,
     last_login |-> None, is_active |-> TRUE]

CreateUser ==
    \E username \in Usernames, user_roles \in RoleLists :
        /\ identity_uuid_count < MaxIdentityUuids
        /\ LET user == NewUser(UuidStrings[identity_uuid_count + 1], username,
                               user_roles, now)
           IN  /\ users' = Insert(users, username, user)
               /\ last' = [op |-> "create_user", username |-> username,
                           ret |-> Ok(user)]
        /\ identity_uuid_count' = identity_uuid_count + 1
        /\ UNCHANGED <<roles, sessions>>
        /\ UNCHANGED <<coordVars, escrowVars, now, ledgerVars, agentVars, lockVars>>

\* IdentityManager::create_role
CreateRole ==
    \E name \in {"user"}, permissions \in PermissionLists :
        /\ roles' = Insert(roles, name,
                           [name |-> name, permissions |-> permissions,
                            created_at |-> now])
        /\ last' = [op |-> "create_role", name |-> name, ret |-> Ok(roles'[name])]
        /\ UNCHANGED <<users, sessions, identity_uuid_count>>
        /\ UNCHANGED <<coordVars, escrowVars, now, ledgerVars, agentVars, lockVars>>

\* IdentityManager::create_session: the session it inserts
NewSession(session_id, user_id, t) ==
    [session_id |-> session_id, user_id |-> user_id, created_at |-> t,
     expires_at |-> t + SessionDays]

\* the key under which create_session and check_permission look a session's
\* user up in `users`
UserKey(session) == session.user_id

\* IdentityManager::create_session: `users` after the update of last_login
WithLastLogin(session, t) ==
    IF UserKey(session) \in DOMAIN users
    THEN [users EXCEPT ![UserKey(session)].last_login = Some(t)]
    ELSE users

\* IdentityManager::authenticate
Authenticate ==
    \E username \in Usernames, password \in {"password123", "wrong"} :
        IF /\ username \in DOMAIN users
           /\ users[username].is_active
           /\ password = "password123"
        THEN /\ identity_uuid_count < MaxIdentityUuids
             /\ LET user == users[username]
                    session == NewSession(UuidStrings[identity_uuid_count + 1],
                                          user.id, now)
                IN  /\ sessions' = Insert(sessions, session.session_id, session)
                    /\ users' = WithLastLogin(session, now)
                    /\ last' = [op |-> "authenticate", username |-> username,
                                ret |-> Ok([success |-> TRUE, user |-> Some(user),
                                            session_id |-> Some(session.session_id),
                                            error |-> None])]
             /\ identity_uuid_count' = identity_uuid_count + 1
             /\ UNCHANGED roles
             /\ UNCHANGED <<coordVars, escrowVars, now, ledgerVars, agentVars, lockVars>>
        ELSE /\ last' = [op |-> "authenticate", username |-> username,
                         ret |-> Ok([success |-> FALSE, user |-> None,
                                     session_id |-> None,
                                     error |-> Some("Invalid credentials")])]
             /\ UNCHANGED <<coordVars, escrowVars, now, ledgerVars, agentVars,
                            identityVars, lockVars>>

\* some role of the list is in `roles` and holds the permission
RoleGrants(user_roles, permission) ==
    \E i \in 1..Len(user_roles) :
        /\ user_roles[i] \in DOMAIN roles
        /\ Contains(roles[user_roles[i]].permissions, permission)

\* IdentityManager::check_permission
check_permission(session_id, permission, t) ==
    IF session_id \notin DOMAIN sessions
    THEN Err("Authentication", "Invalid session")
    ELSE LET session == sessions[session_id]
         IN  IF t > session.expires_at
             THEN Ok([allowed |-> FALSE, reason |-> Some("Session expired")])
             ELSE IF UserKey(session) \notin DOMAIN users
             THEN Err("Authentication", "User not found")
             ELSE LET user == users[UserKey(session)]
                  IN  IF ~user.is_active
                      THEN Ok([allowed |-> FALSE,
                               reason |-> Some("User account is inactive")])
                      ELSE IF Contains(user.permissions, permission)
                      THEN Ok([allowed |-> TRUE, reason |-> None])
                      ELSE IF RoleGrants(user.roles, permission)
                      THEN Ok([allowed |-> TRUE, reason |-> None])
                      ELSE Ok([allowed |-> FALSE,
                               reason |-> Some("Insufficient permissions")])

CheckPermission ==
    \E session_id \in SessionIds, permission \in {"read_data"} :
        /\ last' = [op |-> "check_permission", session_id |-> session_id,
                    permission |-> permission,
                    ret |-> check_permission(session_id, permission, now)]
        /\ UNCHANGED <<coordVars, escrowVars, now, ledgerVars, agentVars, identityVars, lockVars>>

\* HashMap::remove
Remove(map, key) == [k \in DOMAIN map \ {key} |-> map[k]]

\* IdentityManager::logout
Logout ==
    \E session_id \in SessionIds :
        /\ sessions' = Remove(sessions, session_id)
        /\ last' = [op |-> "logout", session_id |-> session_id, ret |-> Ok("unit")]
        /\ UNCHANGED <<users, roles, identity_uuid_count>>
        /\ UNCHANGED <<coordVars, escrowVars, now, ledgerVars, agentVars, lockVars>>

\* IdentityManager::get_user_by_session
get_user_by_session(session_id, t) ==
    IF session_id \in DOMAIN sessions /\ t <= sessions[session_id].expires_at
    THEN Ok(Lookup(users, UserKey(sessions[session_id])))
    ELSE Ok(None)

GetUserBySession ==
    \E session_id \in SessionIds :
        /\ last' = [op |-> "get_user_by_session", session_id |-> session_id,
                    ret |-> get_user_by_session(session_id, now)]
        /\ UNCHANGED <<coordVars, escrowVars, now, ledgerVars, agentVars, identityVars, lockVars>>

NextIdentity ==
    \/ CreateUser
    \/ CreateRole
    \/ Authenticate
    \/ CheckPermission
    \/ Logout
    \/ GetUserBySession
    \/ Tick

-----------------------------------------------------------------------------
(* The coordinator's locks: the registries are tokio::sync::RwLock, and a   *)
(* dispatch and an iteration of the event loop are several steps each.      *)

\* the two RwLocks of AgentCoordinator
Registries == {"prompt", "response"}

\* the tasks that call process_prompt / process_response beside the loop
Tasks == {"t1", "t2"}

\* the one of them that calls with every id and text
Callers == {"t1"}

\* a task between two calls; the loop between two commands
Idle == [pc |-> "idle"]

\* the registry a call or a command works on
RegistryOf(name) ==
    IF name \in {"process_prompt", "ProcessPrompt", "RegisterPromptAgent"}
    THEN "prompt" ELSE "response"

\* RwLock::read: the guard is given while no write guard is held and no
\* writer waits (the lock is fair: a reader that comes after a waiting writer
\* queues behind it)
CanRead_ReadPreferring(registry) == ~write_guard[registry]
CanRead(registry) ==
    /\ ~write_guard[registry]
    /\ ~(consumer.pc = "write_wait" /\ RegistryOf(consumer.command.type) = registry)

\* RwLock::write: the guard is given while no guard is held
CanWrite_IgnoringReaders(registry) == ~write_guard[registry]
CanWrite(registry) == read_guards[registry] = 0 /\ ~write_guard[registry]

\* the process_* calls of a caller: for the first uuid drawn, which is
\* unknown, a prompt agent's or a response agent's as the run goes
DispatchCalls ==
    {[op |-> op, agent_id |-> agent_id, text |-> text] :
        op \in {"process_prompt", "process_response"},
        agent_id \in CommandUuids, text \in DispatchTexts}

\* a task calls process_prompt / process_response: self.*_agents.read()
DispatchCall(task, calls) ==
    \E call \in calls :
        /\ dispatches[task] = Idle
        /\ dispatches' = [dispatches EXCEPT ![task] = [pc |-> "read_wait", call |-> call]]
        /\ last' = [op |-> "call", task |-> task]
        /\ UNCHANGED <<read_guards, write_guard, consumer>>
        /\ UNCHANGED <<coordVars, escrowVars, now, ledgerVars, agentVars, identityVars>>

\* .await of the read guard
DispatchAcquire(task) ==
    /\ dispatches[task].pc = "read_wait"
    /\ LET registry == RegistryOf(dispatches[task].call.op)
       IN  /\ CanRead(registry)
           /\ read_guards' = [read_guards EXCEPT ![registry] = @ + 1]
    /\ dispatches' = [dispatches EXCEPT ![task].pc = "in_pipeline"]
    /\ last' = [op |-> "read", task |-> task]
    /\ UNCHANGED <<write_guard, consumer>>
    /\ UNCHANGED <<coordVars, escrowVars, now, ledgerVars, agentVars, identityVars>>

\* the lookup and the pipeline are done, the call returns and drops its guard
DispatchReturn(task) ==
    /\ dispatches[task].pc = "in_pipeline"
    /\ LET call == dispatches[task].call
       IN  /\ read_guards' = [read_guards EXCEPT ![RegistryOf(call.op)] = @ - 1]
           /\ last' = [op |-> call.op, agent_id |-> call.agent_id, text |-> call.text,
                       out |-> IF call.op = "process_prompt"
                               THEN Coordinator_process_prompt(call.agent_id, call.text)
                               ELSE Coordinator_process_response(call.agent_id, call.text)]
    /\ dispatches' = [dispatches EXCEPT ![task] = Idle]
    /\ UNCHANGED <<write_guard, consumer>>
    /\ UNCHANGED <<coordVars, escrowVars, now, ledgerVars, agentVars, identityVars>>

\* receiver.recv(): the loop takes the next command; the Shutdown arm, which
\* awaits nothing, is the whole iteration and breaks the loop
ConsumerRecv ==
    /\ receiver = "looping"
    /\ consumer = Idle
    /\ command_channel # <<>>
    /\ LET command == command_channel[RecvIndex(command_channel)]
           rest == Without(command_channel, RecvIndex(command_channel))
       IN  IF command.type \in {"RegisterPromptAgent", "RegisterResponseAgent"}
           THEN /\ consumer' = [pc |-> "write_wait", command |-> command]
                /\ receiver' = "looping" /\ command_channel' = rest
                /\ last' = [op |-> "recv", command |-> command]
           ELSE IF command.type \in {"ProcessPrompt", "ProcessResponse"}
           THEN /\ consumer' = [pc |-> "read_wait", command |-> command]
                /\ receiver' = "looping" /\ command_channel' = rest
                /\ last' = [op |-> "recv", command |-> command]
           ELSE /\ consumer' = Idle
                /\ IF Breaks(command, LoopOutcome(command))
                   THEN receiver' = "dropped" /\ command_channel' = <<>>
                   ELSE receiver' = "looping" /\ command_channel' = rest
                /\ last' = [op |-> "event_loop", command |-> command]
    /\ UNCHANGED <<prompt_agents, response_agents, uuid_count>>
    /\ UNCHANGED <<read_guards, write_guard, dispatches>>
    /\ UNCHANGED <<escrowVars, now, ledgerVars, agentVars, identityVars>>

\* .await of the write guard in a Register* arm
ConsumerAcquireWrite ==
    /\ consumer.pc = "write_wait"
    /\ LET registry == RegistryOf(consumer.command.type)
       IN  /\ CanWrite(registry)
           /\ write_guard' = [write_guard EXCEPT ![registry] = TRUE]
    /\ consumer' = [consumer EXCEPT !.pc = "inserting"]
    /\ last' = [op |-> "write"]
    /\ UNCHANGED <<read_guards, dispatches>>
    /\ UNCHANGED <<coordVars, escrowVars, now, ledgerVars, agentVars, identityVars>>

\* the insert of a Register* arm and the drop of the write guard at its end
ConsumerInsert ==
    /\ consumer.pc = "inserting"
    /\ LET command == consumer.command
       IN  /\ prompt_agents' =
                 IF command.type = "RegisterPromptAgent"
                 THEN Insert(prompt_agents, command.id, command.agent)
                 ELSE prompt_agents
           /\ response_agents' =
                 IF command.type = "RegisterResponseAgent"
                 THEN Insert(response_agents, command.id, command.agent)
                 ELSE response_agents
           /\ write_guard' = [write_guard EXCEPT ![RegistryOf(command.type)] = FALSE]
           /\ IF Breaks(command, LoopOutcome(command))
              THEN receiver' = "dropped" /\ command_channel' = <<>>
              ELSE UNCHANGED <<receiver, command_channel>>
           /\ last' = [op |-> "event_loop", command |-> command,
                       out |-> LoopOutcome(command)]
    /\ consumer' = Idle
    /\ UNCHANGED uuid_count
    /\ UNCHANGED <<read_guards, dispatches>>
    /\ UNCHANGED <<escrowVars, now, ledgerVars, agentVars, identityVars>>

\* .await of the read guard in a Process* arm: self.process_*(..)
ConsumerAcquireRead ==
    /\ consumer.pc = "read_wait"
    /\ LET registry == RegistryOf(consumer.command.type)
       IN  /\ CanRead(registry)
           /\ read_guards' = [read_guards EXCEPT ![registry] = @ + 1]
    /\ consumer' = [consumer EXCEPT !.pc = "in_pipeline"]
    /\ last' = [op |-> "read", task |-> "loop"]
    /\ UNCHANGED <<write_guard, dispatches>>
    /\ UNCHANGED <<coordVars, escrowVars, now, ledgerVars, agentVars, identityVars>>

\* the dispatch of a Process* arm returns, its error is logged
ConsumerReturn ==
    /\ consumer.pc = "in_pipeline"
    /\ read_guards' =
          [read_guards EXCEPT ![RegistryOf(consumer.command.type)] = @ - 1]
    /\ IF Breaks(consumer.command, LoopOutcome(consumer.command))
       THEN receiver' = "dropped" /\ command_channel' = <<>>
       ELSE UNCHANGED <<receiver, command_channel>>
    /\ last' = [op |-> "event_loop", command |-> consumer.command,
                out |-> LoopOutcome(consumer.command)]
    /\ consumer' = Idle
    /\ UNCHANGED <<write_guard, dispatches>>
    /\ UNCHANGED <<prompt_agents, response_agents, uuid_count>>
    /\ UNCHANGED <<escrowVars, now, ledgerVars, agentVars, identityVars>>

\* a step of start_event_loop
ConsumerStep ==
    \/ ConsumerRecv
    \/ ConsumerAcquireWrite
    \/ ConsumerInsert
    \/ ConsumerAcquireRead
    \/ ConsumerReturn

\* the steps of the loop and of the tasks, with the registrations and the
\* commands that meet them
NextLocks ==
    \/ \E agent \in {a \in Agents : a.encryption_enabled} :
          \/ Register("register_prompt_agent", "RegisterPromptAgent", agent)
          \/ Register("register_response_agent", "RegisterResponseAgent", agent)
    \/ \E command \in {[type |-> "Shutdown"],
                        [type |-> "ProcessPrompt", agent_id |-> 1, text |-> PlainText]} :
          Send(command)
    \/ StartEventLoop
    \/ ConsumerStep
    \/ \E task \in Tasks :
          DispatchCall(task, {call \in DispatchCalls :
                                 call.agent_id = 1 /\ call.text = PlainText})
    \/ \E task \in Tasks : DispatchAcquire(task)
    \/ \E task \in Tasks : DispatchReturn(task)

-----------------------------------------------------------------------------
(* Specifications *)

NextCoordinator ==
    \/ RegisterPromptAgent
    \/ RegisterResponseAgent
    \/ SendCommand
    \/ StartEventLoop
    \/ DropReceiver
    \/ ConsumerStep
    \/ \E task \in Callers : DispatchCall(task, DispatchCalls)
    \/ \E task \in Callers : DispatchAcquire(task)
    \/ \E task \in Callers : DispatchReturn(task)

\* AgentCoordinator::new(), KeyEscrow::new(vec![], 0), AuditLogger::new:
\* the coordinator alone
InitCoordinator ==
    /\ prompt_agents = <<>>
    /\ response_agents = <<>>
    /\ command_channel = <<>>
    /\ receiver = "held"
    /\ uuid_count = 0
    /\ authorized_parties = <<>>
    /\ minimum_signatures = 0
    /\ escrow_data = <<>>
    /\ now = 0
    /\ audit_entries = <<>>
    /\ audit_uuid_count = 0
    /\ retention_days = DefaultRetentionDays
    /\ encryption_enabled = [a \in HeldAgents |-> TRUE]
    /\ users = <<>>
    /\ roles = <<>>
    /\ sessions = <<>>
    /\ identity_uuid_count = 0
    /\ read_guards = [registry \in Registries |-> 0]
    /\ write_guard = [registry \in Registries |-> FALSE]
    /\ dispatches = [task \in Tasks |-> Idle]
    /\ consumer = Idle
    /\ last = [op |-> "new"]

SpecCoordinator == InitCoordinator /\ [][NextCoordinator]_vars

\* the coordinator with its locks: dispatches and loop iterations interleave
SpecLocks == InitCoordinator /\ [][NextLocks]_vars

\* the same, the loop and the dispatches of the tasks being scheduled again
\* and again: a task that can take a step is not left waiting for ever
SpecLocksFair ==
    /\ SpecLocks
    /\ WF_vars(ConsumerStep)
    /\ \A task \in Tasks : WF_vars(DispatchAcquire(task))
    /\ \A task \in Tasks : WF_vars(DispatchReturn(task))

\* the agents alone, called without a coordinator
SpecAgents == InitCoordinator /\ [][NextAgents]_vars

\* the identity manager alone, from IdentityManager::new()
SpecIdentity == InitCoordinator /\ [][NextIdentity]_vars

\* the key abstraction alone
SpecKms == InitCoordinator /\ [][NextKms]_vars

\* the construction of escrows, from KeyEscrow::new(vec![], 0)
SpecConstruction == InitCoordinator /\ [][NextConstruction]_vars

\* every KeyEscrow that KeyEscrow::new returns for the party lists, beside a
\* new coordinator and a new ledger
Init ==
    /\ prompt_agents = <<>>
    /\ response_agents = <<>>
    /\ command_channel = <<>>
    /\ receiver = "held"
    /\ uuid_count = 0
    /\ \E parties \in PartyLists : \E minimum \in 0..(Len(parties) + 1) :
          /\ KeyEscrow_new(parties, minimum).ok
          /\ authorized_parties = KeyEscrow_new(parties, minimum).value.authorized_parties
          /\ minimum_signatures = KeyEscrow_new(parties, minimum).value.minimum_signatures
          /\ escrow_data = KeyEscrow_new(parties, minimum).value.escrow_data
    /\ now = 0
    /\ audit_entries = <<>>
    /\ audit_uuid_count = 0
    /\ retention_days = DefaultRetentionDays
    /\ encryption_enabled = [a \in HeldAgents |-> TRUE]
    /\ users = <<>>
    /\ roles = <<>>
    /\ sessions = <<>>
    /\ identity_uuid_count = 0
    /\ read_guards = [registry \in Registries |-> 0]
    /\ write_guard = [registry \in Registries |-> FALSE]
    /\ dispatches = [task \in Tasks |-> Idle]
    /\ consumer = Idle
    /\ last = [op |-> "new"]

\* the escrow alone, with the clock
SpecEscrow == Init /\ [][NextEscrow]_vars

\* every AuditLogger that AuditLogger::new returns for the retentions, beside
\* a new coordinator and KeyEscrow::new(vec![], 0)
InitLedger ==
    /\ prompt_agents = <<>>
    /\ response_agents = <<>>
    /\ command_channel = <<>>
    /\ receiver = "held"
    /\ uuid_count = 0
    /\ authorized_parties = <<>>
    /\ minimum_signatures = 0
    /\ escrow_data = <<>>
    /\ now = 0
    /\ audit_entries = <<>>
    /\ audit_uuid_count = 0
    /\ retention_days \in (0..MaxRetention)
    /\ encryption_enabled = [a \in HeldAgents |-> TRUE]
    /\ users = <<>>
    /\ roles = <<>>
    /\ sessions = <<>>
    /\ identity_uuid_count = 0
    /\ read_guards = [registry \in Registries |-> 0]
    /\ write_guard = [registry \in Registries |-> FALSE]
    /\ dispatches = [task \in Tasks |-> Idle]
    /\ consumer = Idle
    /\ last = [op |-> "new"]

\* the ledger alone, with the clock
SpecLedger == InitLedger /\ [][NextLedger]_vars

\* the three components side by side
Next ==
    \/ NextAgents \/ NextCoordinator \/ NextEscrow \/ NextConstruction
    \/ NextLedger \/ NextKms \/ NextIdentity \/ NextLocks

Spec == Init /\ [][Next]_vars

-----------------------------------------------------------------------------
(* Properties of the coordinator *)

\* the uuids that have an agent in one of the registries
Registered == DOMAIN prompt_agents \cup DOMAIN response_agents

NotFound(ret) ==
    /\ ~ret.ok
    /\ ret.kind = "AgentCoordination"
    /\ ret.msg \in {"Prompt agent not found", "Response agent not found"}

\* C1: a process_prompt (process_response) made right after the awaited
\* register_prompt_agent (register_response_agent) that returned Ok(id), for
\* that id and a valid input, reaches the agent's pipeline and is not
\* answered 'not found': when the call is the step after the registration's
\* return and its read guard is free, the lookup it goes on to make finds the
\* agent.
C1_DispatchAfterAwaitedRegistration ==
    [][\A task \in Tasks :
          (/\ last.op \in {"register_prompt_agent", "register_response_agent"}
           /\ last.ret.ok
           /\ dispatches[task] = Idle
           /\ dispatches'[task].pc = "read_wait"
           /\ dispatches'[task].call.agent_id = last.ret.value
           /\ CanRead(RegistryOf(dispatches'[task].call.op)))
          => LET call == dispatches'[task].call
             IN  /\ (/\ last.op = "register_prompt_agent"
                     /\ call.op = "process_prompt"
                     /\ validate_prompt(call.text).ok)
                    => ~NotFound(Coordinator_process_prompt(call.agent_id,
                                                            call.text).ret)
                 /\ (/\ last.op = "register_response_agent"
                     /\ call.op = "process_response"
                     /\ validate_response(call.text).ok)
                    => ~NotFound(Coordinator_process_response(call.agent_id,
                                                              call.text).ret)]_vars

\* C5: a dispatch for an id that is not a key of its registry (be it a key of
\* the other registry) returns the AgentCoordination 'not found' error naming
\* the id, runs no pipeline (nothing is traced) and changes no state; the
\* same holds of the dispatch the event loop makes for a command, which
\* changes the registries not at all.
C5_UnknownIdIsNotFound ==
    [][/\ (last'.op = "process_prompt" /\ last'.agent_id \notin DOMAIN prompt_agents)
          => /\ last'.out = [ret |-> ErrAbout("AgentCoordination",
                                              "Prompt agent not found", last'.agent_id),
                             traced |-> <<>>, steps |-> <<>>]
             /\ UNCHANGED <<coordVars, escrowVars, now, ledgerVars>>
       /\ (last'.op = "process_response" /\ last'.agent_id \notin DOMAIN response_agents)
          => /\ last'.out = [ret |-> ErrAbout("AgentCoordination",
                                              "Response agent not found", last'.agent_id),
                             traced |-> <<>>, steps |-> <<>>]
             /\ UNCHANGED <<coordVars, escrowVars, now, ledgerVars>>
       /\ (/\ last'.op = "event_loop" /\ last'.command.type = "ProcessPrompt"
           /\ last'.command.agent_id \notin DOMAIN prompt_agents)
          => /\ NotFound(last'.out.ret) /\ last'.out.traced = <<>>
             /\ UNCHANGED <<prompt_agents, response_agents>>
       /\ (/\ last'.op = "event_loop" /\ last'.command.type = "ProcessResponse"
           /\ last'.command.agent_id \notin DOMAIN response_agents)
          => /\ NotFound(last'.out.ret) /\ last'.out.traced = <<>>
             /\ UNCHANGED <<prompt_agents, response_agents>>]_vars

\* a prompt dispatch for an id registered only as a response agent was refused
C5_Witness ==
    /\ last.op = "process_prompt"
    /\ last.agent_id \in DOMAIN response_agents \ DOMAIN prompt_agents
    /\ NotFound(last.out.ret)

\* C6: registrations are applied in the order they were sent: whenever the
\* agent of a later registration is in its registry, so are the agents of all
\* registrations sent before it (uuids are numbered in the order drawn, and a
\* registration whose send was refused is followed only by refused ones).
C6_RegistrationsAppliedInOrder ==
    \A i, j \in 1..uuid_count : (i < j /\ j \in Registered) => i \in Registered

\* two registrations, sent one after the other, have both been applied
C6_Witness ==
    /\ 1 \in DOMAIN prompt_agents \cup DOMAIN response_agents
    /\ 2 \in DOMAIN prompt_agents \cup DOMAIN response_agents
    /\ last.op = "event_loop"

\* C7: the loop leaves Running only by consuming a Shutdown command, consuming
\* a Shutdown always ends it, and Terminated is absorbing: once the loop has
\* ended no command is consumed and no registry changes, the commands queued
\* behind the Shutdown included.
C7_ShutdownTerminatesAndAbsorbs ==
    [][/\ (receiver = "looping" /\ receiver' # "looping")
          => /\ receiver' = "dropped"
             /\ last'.op = "event_loop" /\ last'.command.type = "Shutdown"
       /\ (last'.op = "event_loop" /\ last'.command.type = "Shutdown")
          => receiver' = "dropped"
       /\ receiver = "dropped"
          => /\ receiver' = "dropped"
             /\ last'.op # "event_loop"
             /\ UNCHANGED <<prompt_agents, response_agents, command_channel>>]_vars

\* the loop has just ended on a Shutdown with a registration queued behind it
C7_Witness ==
    /\ receiver = "dropped"
    /\ last.op = "event_loop" /\ last.command.type = "Shutdown"
    /\ uuid_count > Cardinality(Registered)

\* C8: register_* returns an AgentCoordination error exactly when the receiver
\* has been dropped; otherwise it returns Ok with a uuid never returned
\* before, the command is at the back of the channel and both registries are
\* as they were.
C8_RegisterFailsIffClosed ==
    [][last'.op \in {"register_prompt_agent", "register_response_agent"}
       => /\ last'.ret.ok <=> receiver # "dropped"
          /\ ~last'.ret.ok
             => /\ last'.ret = Err("AgentCoordination",
                                   "Failed to send registration command")
                /\ UNCHANGED <<prompt_agents, response_agents, command_channel, receiver>>
          /\ last'.ret.ok
             => /\ last'.ret.value \notin 1..uuid_count
                /\ Len(command_channel') = Len(command_channel) + 1
                /\ command_channel'[Len(command_channel')].id = last'.ret.value
                /\ command_channel'[Len(command_channel')].type =
                      (IF last'.op = "register_prompt_agent"
                       THEN "RegisterPromptAgent" ELSE "RegisterResponseAgent")
                /\ last'.ret.value \notin Registered'
                /\ UNCHANGED <<prompt_agents, response_agents, receiver>>]_vars

\* a registration was refused after the loop had ended
C8_Witness ==
    /\ receiver = "dropped"
    /\ last.op = "register_prompt_agent"
    /\ ~last.ret.ok

\* C9: a dispatch that fails leaves the loop as it is: made by the loop for a
\* command it has received, the loop stays Running, back at its recv, with
\* the following commands still queued in their order; made by a caller, the
\* receiver and the channel are untouched.
C9_FailedDispatchKeepsLoopRunning ==
    [][/\ (/\ last'.op = "event_loop"
           /\ last'.command.type \in {"ProcessPrompt", "ProcessResponse"}
           /\ ~last'.out.ret.ok)
          => /\ receiver' = "looping"
             /\ command_channel' = command_channel
             /\ consumer' = Idle
       /\ (last'.op \in {"process_prompt", "process_response"} /\ ~last'.out.ret.ok)
          => UNCHANGED <<receiver, command_channel>>]_vars

\* the loop has made a failing dispatch and a further command waits
C9_Witness ==
    /\ last.op = "event_loop"
    /\ last.command.type \in {"ProcessPrompt", "ProcessResponse"}
    /\ ~last.out.ret.ok
    /\ receiver = "looping"
    /\ command_channel # <<>>

\* C10: register_* never returns a uuid it returned before, the registrations
\* waiting in the channel carry pairwise distinct uuids none of which is
\* registered yet, and no step replaces or removes the agent stored under a
\* uuid.
C10_IdentitiesAreNeverReused ==
    [][/\ (last'.op \in {"register_prompt_agent", "register_response_agent"}
           /\ last'.ret.ok)
          => last'.ret.value \notin 1..uuid_count
       /\ \A i \in 1..Len(command_channel) :
             command_channel[i].type \in {"RegisterPromptAgent", "RegisterResponseAgent"}
             => /\ command_channel[i].id \notin Registered
                /\ \A j \in 1..Len(command_channel) :
                      (j # i /\ command_channel[j].type
                                  \in {"RegisterPromptAgent", "RegisterResponseAgent"})
                      => command_channel[j].id # command_channel[i].id
       /\ \A k \in DOMAIN prompt_agents :
             k \in DOMAIN prompt_agents' /\ prompt_agents'[k] = prompt_agents[k]
       /\ \A k \in DOMAIN response_agents :
             k \in DOMAIN response_agents' /\ response_agents'[k] = response_agents[k]]_vars

\* a second registration has been applied to a registry that held an agent
C10_Witness ==
    /\ Cardinality(DOMAIN prompt_agents) >= 2
    /\ last.op = "event_loop"
    /\ last.command.type = "RegisterPromptAgent"

-----------------------------------------------------------------------------
(* Properties of the escrow *)

\* the entry of key id k has expired: it carries an expiry that has passed
Expired(k) ==
    /\ k \in DOMAIN escrow_data
    /\ escrow_data[k].expires_at # None
    /\ now > escrow_data[k].expires_at[1]

\* the parties of the escrow, as a set
Parties == {authorized_parties[i] : i \in 1..Len(authorized_parties)}

\* a request that passes the field checks and names an escrowed key
WellFormed(request) ==
    /\ request.key_id # "" /\ request.reason # "" /\ request.requester # ""
    /\ request.key_id \in DOMAIN escrow_data

\* the three conditions of a grant
Authorized(request) ==
    /\ Len(request.signatures) >= minimum_signatures
    /\ \A i \in 1..Len(request.signatures) : request.signatures[i] \in Parties
    /\ ~Expired(request.key_id)

\* some request for key id k would be granted now
Recoverable(k) ==
    \E request \in RecoveryRequests :
        request.key_id = k /\ KeyEscrow_recover_key(request, now).ret.ok

\* C2: a recover_key for an escrowed key, with key id, reason and requester
\* non-empty, returns the key bytes exactly when the signatures are at least
\* minimum_signatures, every signer is an authorized party and the entry has
\* no expiry or now <= expires_at.
C2_GrantedIffThreeConditions ==
    (last.op = "recover_key" /\ WellFormed(last.request))
    => /\ last.out.ret.ok <=> Authorized(last.request)
       /\ last.out.ret.ok
          => last.out.ret.value = escrow_data[last.request.key_id].encrypted_key

\* a request with enough signatures against an unexpired entry that carries
\* an expiry was refused for its unauthorized signer alone
C2_Witness ==
    /\ last.op = "recover_key" /\ WellFormed(last.request)
    /\ Len(last.request.signatures) >= minimum_signatures
    /\ minimum_signatures > 0
    /\ escrow_data[last.request.key_id].expires_at # None
    /\ ~Expired(last.request.key_id)
    /\ \E i \in 1..Len(last.request.signatures) :
          last.request.signatures[i] \notin Parties
    /\ ~last.out.ret.ok

\* C3 as stated: once the entry of k has expired, no request for k can be
\* granted after any later step, be it an escrow_key, a recover_key or the
\* passing of time.
C3_ExpiredIsNeverRecoverable ==
    [][\A k \in EscrowKeyIds : Expired(k) => ~Recoverable(k)']_vars

\* C3 as amended: once the entry of k has expired it stays expired, and every
\* recover_key for k is refused, until an escrow_key for k replaces the entry.
C3_ExpiredUntilReEscrowed ==
    [][\A k \in EscrowKeyIds :
          (Expired(k) /\ ~(last'.op = "escrow_key" /\ last'.key_id = k))
          => /\ Expired(k)'
             /\ ~(/\ last'.op = "recover_key" /\ last'.request.key_id = k
                  /\ last'.out.ret.ok)]_vars

\* a request that meets the signature conditions was refused for expiry
C3_Witness ==
    /\ last.op = "recover_key" /\ WellFormed(last.request)
    /\ Expired(last.request.key_id)
    /\ Len(last.request.signatures) >= minimum_signatures
    /\ \A i \in 1..Len(last.request.signatures) : last.request.signatures[i] \in Parties
    /\ last.out.ret = Err("Generic", "Escrowed key has expired")

\* C4: every completed process_prompt, process_response, escrow_key and
\* recover_key call adds exactly one entry to the audit ledger, with result
\* Failure when the call was aborted.
C4_OneAuditEntryPerOperation ==
    [][last'.op \in {"process_prompt", "process_response", "escrow_key", "recover_key"}
       => /\ Len(audit_entries') = Len(audit_entries) + 1
          /\ ~last'.out.ret.ok
             => audit_entries'[Len(audit_entries')].result = "Failure"]_vars

-----------------------------------------------------------------------------
(* Properties of the ledger *)

\* the entry ids of a ledger
EntryIds(entries) == {entries[i].entry_id : i \in 1..Len(entries)}

\* C12: cleanup_old_entries removes exactly the entries whose timestamp is at
\* or before now - retention_days (the entry stamped at the cutoff itself is
\* removed) and none stamped after it, keeps the retained entries as they
\* were and in their order, and returns the number of entries it removed.
C12_CleanupRemovesExactlyTheOld ==
    [][last'.op = "cleanup_old_entries"
       => /\ \A i \in 1..Len(audit_entries) :
                (audit_entries[i].timestamp <= now - retention_days)
                <=> audit_entries[i].entry_id \notin EntryIds(audit_entries')
          /\ \A i \in 1..Len(audit_entries') :
                \E j \in 1..Len(audit_entries) : audit_entries'[i] = audit_entries[j]
          /\ \A i, j \in 1..Len(audit_entries') :
                i < j => audit_entries'[i].entry_id < audit_entries'[j].entry_id
          /\ last'.out.ret = Ok(Len(audit_entries) - Len(audit_entries'))
          /\ UNCHANGED <<retention_days, audit_uuid_count, now>>]_vars

\* a cleanup one day after the first entry, with one day of retention, removed
\* the entry stamped at the cutoff and kept the entry stamped after it
C12_Witness ==
    /\ last.op = "cleanup_old_entries"
    /\ retention_days = 1 /\ now = 1
    /\ audit_uuid_count = 2
    /\ last.out.ret = Ok(1)
    /\ Len(audit_entries) = 1 /\ audit_entries[1].timestamp = 1

\* C20: log_operation returns Ok for every argument; the call appends one
\* entry at the end of the ledger, carrying the user id, session id, action,
\* resource and result it was given and an entry id no stored entry has,
\* returns that entry id, and leaves the entries stored before as they were.
C20_LogAppendsOneEntry ==
    [][last'.op = "log_operation"
       => /\ last'.out.ret.ok
          /\ Len(audit_entries') = Len(audit_entries) + 1
          /\ SubSeq(audit_entries', 1, Len(audit_entries)) = audit_entries
          /\ LET entry == audit_entries'[Len(audit_entries')]
             IN  /\ entry.user_id = last'.args.user_id
                 /\ entry.session_id = last'.args.session_id
                 /\ entry.action = last'.args.action
                 /\ entry.resource = last'.args.resource
                 /\ entry.result = last'.args.result
                 /\ entry.timestamp = now
                 /\ entry.entry_id = last'.out.ret.value
                 /\ entry.entry_id \notin EntryIds(audit_entries)]_vars

\* a Failure of a sensitive action was logged behind an earlier entry
C20_Witness ==
    /\ last.op = "log_operation"
    /\ last.args.result = "Failure" /\ last.args.action = "key_recovery"
    /\ last.args.user_id = None
    /\ Len(audit_entries) = 2
    /\ audit_entries[2].entry_id = last.out.ret.value
    /\ audit_entries[1].user_id # None

-----------------------------------------------------------------------------
(* Properties of the agents' pipelines *)

\* C17: process_prompt("") on a prompt agent with encryption enabled returns
\* the error of the validation step ('Prompt cannot be empty'), runs neither
\* the encrypt step nor the audit step, and traces no audit record.
C17_EmptyPromptIsRejected ==
    (/\ last.op = "PromptAgent::process_prompt"
     /\ last.agent.encryption_enabled
     /\ StrLen(last.text) = 0)
    => /\ last.out.ret = Err("AgentCoordination", "Prompt cannot be empty")
       /\ last.out.steps = <<"validate">>
       /\ last.out.traced = <<>>

\* the empty prompt was refused by an agent with encryption enabled
C17_Witness ==
    /\ last.op = "PromptAgent::process_prompt"
    /\ last.agent.encryption_enabled
    /\ last.text = EmptyText
    /\ ~last.out.ret.ok

\* C18: process_prompt validates first and on the raw input: it accepts
\* exactly the prompts of length 1 to 10,000, and a rejected prompt stops at
\* the validate step with nothing encrypted or traced.  process_response with
\* encryption enabled decrypts first and validates what it decrypted: of the
\* inputs that decrypt, it accepts exactly those whose decrypted length is 1
\* to 50,000, whatever the length of the encrypted input; with encryption
\* disabled it accepts exactly the inputs of length 1 to 50,000.
C18_ValidationOrder ==
    /\ last.op = "PromptAgent::process_prompt"
       => /\ last.out.steps[1] = "validate"
          /\ last.out.ret.ok <=> StrLen(last.text) \in 1..MaxPromptLen
          /\ ~last.out.ret.ok => last.out.steps = <<"validate">> /\ last.out.traced = <<>>
          /\ last.out.ret.ok
             => /\ last.out.steps[Len(last.out.steps)] = "audit"
                /\ Len(last.out.traced) = 1
                /\ last.out.traced[1].prompt_length = StrLen(last.text)
    /\ (last.op = "ResponseAgent::process_response" /\ last.agent.encryption_enabled)
       => /\ last.out.steps[1] = "decrypt"
          /\ last.out.ret.ok
             <=> /\ last.text.pre > 0
                 /\ StrLen(last.text) - EncPrefixLen \in 1..MaxResponseLen
          /\ last.text.pre > 0
             => /\ Len(last.out.steps) >= 2 /\ last.out.steps[2] = "validate"
                /\ last.out.ret.ok
                   => /\ StrLen(last.out.ret.value.body) = StrLen(last.text) - EncPrefixLen
                      /\ last.out.traced[1].decrypted_length
                            = StrLen(last.text) - EncPrefixLen
    /\ (last.op = "ResponseAgent::process_response" /\ ~last.agent.encryption_enabled)
       => /\ last.out.steps[1] = "validate"
          /\ last.out.ret.ok <=> StrLen(last.text) \in 1..MaxResponseLen

\* an encrypted response longer than 50,000 whose decrypted content is
\* exactly 50,000 long was accepted
C18_Witness ==
    /\ last.op = "ResponseAgent::process_response"
    /\ last.agent.encryption_enabled
    /\ StrLen(last.text) > MaxResponseLen
    /\ StrLen(last.text) - EncPrefixLen = MaxResponseLen
    /\ last.out.ret.ok

-----------------------------------------------------------------------------
(* Further properties of the escrow *)

\* C11: two recover_key calls for the same key id that are in flight together
\* are not both granted.  recover_key borrows the escrow shared (&self) and
\* has no await inside, so two calls in flight together run one right after
\* the other upon the same escrow: two consecutive recover_key steps.
C11_ConcurrentRecoveriesNotBothGranted ==
    [][~(/\ last.op = "recover_key" /\ last.out.ret.ok
         /\ last'.op = "recover_key" /\ last'.out.ret.ok
         /\ last'.request.key_id = last.request.key_id)]_vars

\* the position of the first signer of a list that is no authorized party
FirstOutsider(signatures) ==
    CHOOSE i \in 1..Len(signatures) :
        /\ signatures[i] \notin Parties
        /\ \A j \in 1..(i - 1) : signatures[j] \in Parties

\* C13: against an entry that is present and not expired, a well-formed
\* request with fewer signatures than minimum_signatures is refused with the
\* Authentication error 'Insufficient signatures' carrying the required and
\* the provided count, whoever signed; one with enough signatures and some
\* signer outside authorized_parties is refused with the Authentication error
\* 'Unauthorized signer' naming the first such signer of the list.
C13_SignatureErrorsNameTheFailure ==
    (/\ last.op = "recover_key" /\ WellFormed(last.request)
     /\ ~Expired(last.request.key_id))
    => LET signatures == last.request.signatures
       IN  /\ Len(signatures) < minimum_signatures
              => last.out.ret = ErrAbout("Authentication", "Insufficient signatures",
                                         <<minimum_signatures, Len(signatures)>>)
           /\ (/\ Len(signatures) >= minimum_signatures
               /\ \E i \in 1..Len(signatures) : signatures[i] \notin Parties)
              => last.out.ret = ErrAbout("Authentication", "Unauthorized signer",
                                         signatures[FirstOutsider(signatures)])

\* a request signed by two outsiders, enough in number, against an entry with
\* an expiry not yet passed, was refused naming the first of the two
C13_Witness ==
    /\ last.op = "recover_key" /\ WellFormed(last.request)
    /\ ~Expired(last.request.key_id)
    /\ escrow_data[last.request.key_id].expires_at # None
    /\ minimum_signatures = 2
    /\ last.request.signatures = <<"E", "D">>
    /\ last.out.ret = ErrAbout("Authentication", "Unauthorized signer", "E")

\* C14: a granted recover_key returns the encrypted bytes of the entry stored
\* under request.key_id, which are the bytes of the latest escrow_key for that
\* key id: an escrow_key for k stores its bytes under k, and no other step
\* changes the bytes stored under k.  recover_key, granted or refused, leaves
\* the store, the authorized parties and the threshold as they were.
C14_GrantReturnsLatestCiphertext ==
    [][/\ last'.op = "recover_key"
          => /\ UNCHANGED <<escrow_data, authorized_parties, minimum_signatures>>
             /\ last'.out.ret.ok
                => /\ last'.request.key_id \in DOMAIN escrow_data
                   /\ last'.out.ret.value
                         = escrow_data[last'.request.key_id].encrypted_key
                   /\ last'.out.ret.value \in Ciphertexts
       /\ \A k \in DOMAIN escrow_data' :
             IF last'.op = "escrow_key" /\ last'.key_id = k
             THEN escrow_data'[k].encrypted_key = last'.encrypted_key
             ELSE /\ k \in DOMAIN escrow_data
                  /\ escrow_data'[k].encrypted_key = escrow_data[k].encrypted_key]_vars

\* a request was granted the bytes of an entry escrowed after the clock had
\* advanced, the only entry of the store
C14_Witness ==
    /\ last.op = "recover_key" /\ last.out.ret.ok
    /\ minimum_signatures = 2
    /\ escrow_data[last.request.key_id].created_at = 1
    /\ last.out.ret.value = "c2"
    /\ DOMAIN escrow_data = {last.request.key_id}

\* C15: escrow_key(k, bytes, expiry) returns Ok; afterwards the key ids of the
\* store are those it had and k, the entry of k carries k, the bytes, the
\* expiry and the time of the call, and the entry of every other key id is as
\* it was; making the same call again, at any time, leaves the same key ids
\* and under each the same bytes and expiry.
C15_EscrowKeyOverwrites ==
    [][last'.op = "escrow_key"
       => LET k == last'.key_id
              again(t) == InsertEntry(escrow_data', k,
                                      [key_id |-> k,
                                       encrypted_key |-> last'.encrypted_key,
                                       created_at |-> t,
                                       expires_at |-> last'.expires_at])
          IN  /\ last'.out.ret = Ok("unit")
              /\ DOMAIN escrow_data' = DOMAIN escrow_data \cup {k}
              /\ escrow_data'[k] = [key_id |-> k,
                                    encrypted_key |-> last'.encrypted_key,
                                    created_at |-> now,
                                    expires_at |-> last'.expires_at]
              /\ \A j \in DOMAIN escrow_data \ {k} : escrow_data'[j] = escrow_data[j]
              /\ UNCHANGED <<authorized_parties, minimum_signatures>>
              /\ \A t \in Times :
                    /\ DOMAIN again(t) = DOMAIN escrow_data'
                    /\ \A j \in DOMAIN escrow_data' :
                          /\ again(t)[j].encrypted_key = escrow_data'[j].encrypted_key
                          /\ again(t)[j].expires_at = escrow_data'[j].expires_at]_vars

\* an escrow_key replaced the entry of its key id beside the entry of another
C15_Witness ==
    /\ last.op = "escrow_key" /\ last.replaced
    /\ Cardinality(DOMAIN escrow_data) = 2
    /\ escrow_data[last.key_id].encrypted_key = last.encrypted_key
    /\ escrow_data[last.key_id].expires_at # None

\* C16: KeyEscrow::new(parties, minimum) fails exactly when minimum exceeds
\* the number of parties given; otherwise it returns an escrow with an empty
\* store, the parties as given and the threshold as given.
C16_NewFailsIffThresholdExceedsParties ==
    [][last'.op = "KeyEscrow::new"
       => /\ ~last'.ret.ok <=> last'.minimum > Len(last'.parties)
          /\ ~last'.ret.ok
             => /\ last'.ret.kind = "Generic"
                /\ UNCHANGED <<escrow_data, authorized_parties, minimum_signatures>>
          /\ last'.ret.ok
             => /\ escrow_data' = <<>>
                /\ authorized_parties' = last'.parties
                /\ minimum_signatures' = last'.minimum]_vars

\* an escrow whose threshold equals the number of its parties was constructed
C16_Witness ==
    /\ last.op = "KeyEscrow::new" /\ last.ret.ok
    /\ last.minimum = 2 /\ Len(last.parties) = 2
    /\ authorized_parties = last.parties /\ minimum_signatures = 2
    /\ escrow_data = <<>>

-----------------------------------------------------------------------------
(* Further properties of the coordinator *)

\* C19: process_response on a registered response agent with its default
\* settings (encryption enabled) returns Ok for every plain-text response of
\* length 1 to 50,000.
C19_DefaultResponseAgentAcceptsPlainText ==
    (/\ last.op = "process_response"
     /\ last.agent_id \in DOMAIN response_agents
     /\ response_agents[last.agent_id].encryption_enabled
     /\ last.text.pre = 0
     /\ StrLen(last.text) \in 1..MaxResponseLen)
    => last.out.ret.ok

-----------------------------------------------------------------------------
(* Further properties of the agents' pipelines *)

\* the steps a sequence of pipeline steps holds
StepSet(steps) == {steps[i] : i \in 1..Len(steps)}

\* C29: set_encryption(enabled) sets the flag of the agent it is called on
\* and of no other agent; a process_prompt or process_response call leaves
\* all flags as they are and runs by the flag its agent has at the call: with
\* the flag off a prompt is not encrypted (the bytes audited are the raw ones)
\* and a response is not decrypted but validated as given, with the flag on
\* the encrypt and decrypt steps run; so the call right after a
\* set_encryption on its agent runs by the value just set.
C29_EncryptionTogglePerAgent ==
    [][/\ last'.op = "set_encryption"
          => /\ encryption_enabled'[last'.agent_id] = last'.enabled
             /\ \A a \in HeldAgents \ {last'.agent_id} :
                   encryption_enabled'[a] = encryption_enabled[a]
       /\ last'.op = "PromptAgent::process_prompt"
          => /\ UNCHANGED encryption_enabled
             /\ last'.agent.encryption_enabled = encryption_enabled[last'.agent.id]
             /\ last'.out.ret.ok
                => /\ "encrypt" \in StepSet(last'.out.steps)
                      <=> encryption_enabled[last'.agent.id]
                   /\ last'.out.traced[1].encrypted_length
                        = IF encryption_enabled[last'.agent.id]
                          THEN StrLen(last'.text) + EncPrefixLen
                          ELSE StrLen(last'.text)
       /\ last'.op = "ResponseAgent::process_response"
          => /\ UNCHANGED encryption_enabled
             /\ last'.agent.encryption_enabled = encryption_enabled[last'.agent.id]
             /\ "decrypt" \in StepSet(last'.out.steps)
                   <=> encryption_enabled[last'.agent.id]
             /\ ~encryption_enabled[last'.agent.id]
                => /\ last'.out.ret.ok <=> StrLen(last'.text) \in 1..MaxResponseLen
                   /\ last'.out.ret.ok => last'.out.ret.value.body = last'.text
       /\ (/\ last.op = "set_encryption"
           /\ last'.op \in {"PromptAgent::process_prompt",
                            "ResponseAgent::process_response"}
           /\ last'.agent.id = last.agent_id)
          => last'.agent.encryption_enabled = last.enabled]_vars

\* a prompt agent whose flag was turned off processed a prompt without the
\* encrypt step while the other prompt agent still has its flag on
C29_Witness ==
    /\ last.op = "PromptAgent::process_prompt"
    /\ last.agent.id = 201
    /\ ~encryption_enabled[201] /\ encryption_enabled[202]
    /\ last.out.ret.ok
    /\ last.out.steps = <<"validate", "audit">>

-----------------------------------------------------------------------------
(* Further properties of the ledger *)

\* the entries of a ledger, as a set
Entries(entries) == {entries[i] : i \in 1..Len(entries)}

\* C21: in every step of the ledger an entry that stays in the ledger stays as
\* it was inserted, the entries that stay keep their order, an entry leaves
\* the ledger in a cleanup_old_entries step only, and query_audit_entries,
\* generate_report and get_audit_stats leave the ledger as it was.
C21_LedgerIsAppendOnly ==
    [][/\ \A i \in 1..Len(audit_entries) :
             IF audit_entries[i].entry_id \in EntryIds(audit_entries')
             THEN audit_entries[i] \in Entries(audit_entries')
             ELSE last'.op = "cleanup_old_entries"
       /\ \A i, j \in 1..Len(audit_entries') :
             i < j => audit_entries'[i].entry_id < audit_entries'[j].entry_id
       /\ last'.op \in {"query_audit_entries", "generate_report", "get_audit_stats"}
          => UNCHANGED <<audit_entries, audit_uuid_count, retention_days>>]_vars

\* statistics were taken of a ledger that holds one of the two entries logged,
\* the other having been cleaned up
C21_Witness ==
    /\ last.op = "get_audit_stats"
    /\ last.out.total_entries = 1
    /\ Len(audit_entries) = 1
    /\ audit_uuid_count = 2

\* the entry satisfies every predicate the query supplies
Matching(entry, query) ==
    /\ query.start_date # None => entry.timestamp >= query.start_date[1]
    /\ query.end_date # None => entry.timestamp <= query.end_date[1]
    /\ query.user_id # None => entry.user_id = query.user_id
    /\ query.action # None => entry.action = query.action[1]
    /\ query.resource # None => entry.resource = query.resource[1]
    /\ query.result # None => entry.result = query.result[1]

\* C22: query_audit_entries returns Ok with entries of the ledger that satisfy
\* all supplied predicates (bounds inclusive), each once, newest first; without
\* a limit, or with a limit not below their number, all of them, and otherwise
\* `limit` of them such that no matching entry left out is newer than one
\* returned; with no matching entry it returns Ok with the empty sequence.
C22_QueryFiltersSortsTruncates ==
    last.op = "query_audit_entries"
    => LET found == last.out.ret.value
           matching == {e \in Entries(audit_entries) : Matching(e, last.query)}
       IN  /\ last.out.ret.ok
           /\ \A i \in 1..Len(found) : found[i] \in matching
           /\ \A i, j \in 1..Len(found) :
                 i < j => /\ found[i].entry_id # found[j].entry_id
                          /\ found[i].timestamp >= found[j].timestamp
           /\ Len(found) = IF \/ last.query.limit = None
                              \/ last.query.limit[1] >= Cardinality(matching)
                           THEN Cardinality(matching)
                           ELSE last.query.limit[1]
           /\ \A e \in matching \ Entries(found) :
                 \A i \in 1..Len(found) : found[i].timestamp >= e.timestamp
           /\ matching = {} => found = <<>>

\* a query with limit 1 returned the newer of two entries, which is the
\* second of the ledger
C22_Witness ==
    /\ last.op = "query_audit_entries"
    /\ last.query = [NoFilter EXCEPT !.limit = Some(1)]
    /\ Len(audit_entries) = 2
    /\ audit_entries[1].timestamp = 0 /\ audit_entries[2].timestamp = 1
    /\ last.out.ret.value = <<audit_entries[2]>>

\* the sum of the values of a function with a finite domain
RECURSIVE SumOf(_)
SumOf(f) ==
    IF DOMAIN f = {} THEN 0
    ELSE LET x == CHOOSE x \in DOMAIN f : TRUE
         IN  f[x] + SumOf([y \in DOMAIN f \ {x} |-> f[y]])

\* C23: generate_report(start, end) returns Ok with counts over the entries
\* whose timestamp lies in start..end, both ends included: total is their
\* number and the sum of the success, failure and partial counts, each of
\* which counts the entries of that result; the per-action counts add up to
\* total, the per-user counts to the number of those entries that carry a
\* user id; the success rate is 100 * success / total, and 0 when total is 0.
C23_ReportAggregatesRange ==
    last.op = "generate_report"
    => LET report == last.out.ret.value
           ranged == {e \in Entries(audit_entries) :
                         /\ last.start_date <= e.timestamp
                         /\ e.timestamp <= last.end_date}
           with(result) == Cardinality({e \in ranged : e.result = result})
       IN  /\ last.out.ret.ok
           /\ report.total_operations = Cardinality(ranged)
           /\ report.successful_operations = with("Success")
           /\ report.failed_operations = with("Failure")
           /\ report.partial_operations = with("Partial")
           /\ report.total_operations
                = report.successful_operations + report.failed_operations
                  + report.partial_operations
           /\ SumOf(report.action_breakdown) = report.total_operations
           /\ SumOf(report.user_activity)
                = Cardinality({e \in ranged : e.user_id # None})
           /\ report.total_operations = 0 => report.success_rate.numerator = 0
           /\ report.total_operations > 0
              => /\ report.success_rate.numerator = 100 * report.successful_operations
                 /\ report.success_rate.denominator = report.total_operations

\* a report over day 1 alone counted the one entry of that day, which carries
\* no user id, and left out the entry of day 0
C23_Witness ==
    /\ last.op = "generate_report"
    /\ last.start_date = 1 /\ last.end_date = 1
    /\ Len(audit_entries) = 2
    /\ audit_entries[1].timestamp = 0 /\ audit_entries[2].timestamp = 1
    /\ audit_entries[2].user_id = None
    /\ last.out.ret.value.total_operations = 1
    /\ last.out.ret.value.failed_operations = 1
    /\ DOMAIN last.out.ret.value.user_activity = {}

-----------------------------------------------------------------------------
(* Properties of the key abstraction *)

\* C25: encrypt never fails, and decrypt of the ciphertext that encrypt
\* returns for a byte sequence returns that byte sequence as its plaintext,
\* whatever the fields of the client.
C25_DecryptInvertsEncrypt ==
    /\ last.op = "KmsClient::encrypt" => last.out.ok
    /\ last.op = "KmsClient::decrypt"
       => \A plaintext \in Plaintexts :
             KmsClient_encrypt(last.client, plaintext).value.ciphertext = last.ciphertext
             => /\ last.out.ok
                /\ last.out.value.plaintext = plaintext

\* decrypt was given the ciphertext "/00=" of the two bytes 0xFF 'M', by a
\* client whose fields are all non-empty, and returned them
C25_Witness ==
    /\ last.op = "KmsClient::decrypt"
    /\ \A f \in DOMAIN last.client : last.client[f] # ""
    /\ last.ciphertext = <<47, 48, 48, 61>>
    /\ last.out.ok
    /\ last.out.value.plaintext = <<255, 77>>

\* the text is base64 of the standard alphabet without padding: symbols of
\* the alphabet only, not one symbol beyond whole groups of four, and no bit
\* set in the last symbol beyond the bytes it encodes
Base64Unpadded(text) ==
    /\ \A i \in 1..Len(text) :
          \/ text[i] \in 65..90 \/ text[i] \in 97..122 \/ text[i] \in 48..57
          \/ text[i] \in {43, 47}
    /\ Len(text) % 4 # 1
    /\ Len(text) % 4 = 2 => B64Index(text[Len(text)]) % 16 = 0
    /\ Len(text) % 4 = 3 => B64Index(text[Len(text)]) % 4 = 0

\* the text is base64 of the standard alphabet, its last group padded with
\* '=' to four symbols
Base64Padded(text) ==
    /\ Len(text) % 4 = 0
    /\ \E pads \in 0..2 :
          /\ pads <= Len(text)
          /\ \A i \in (Len(text) - pads + 1)..Len(text) : text[i] = Pad
          /\ Base64Unpadded(SubSeq(text, 1, Len(text) - pads))

\* C26: decrypt returns a KmsDecryption error, and no plaintext, for every
\* input that is not valid UTF-8 or not padded base64 of the standard
\* alphabet.
C26_DecryptRejectsForeignInput ==
    (/\ last.op = "KmsClient::decrypt"
     /\ \/ ~Utf8Valid(last.ciphertext)
        \/ ~Base64Padded(last.ciphertext))
    => /\ ~last.out.ok
       /\ last.out.kind = "KmsDecryption"

\* decrypt was given "QR==", whose last symbol has bits set beyond the one
\* byte, and returned the error of the decoder
C26_Witness ==
    /\ last.op = "KmsClient::decrypt"
    /\ last.ciphertext = <<81, 82, 61, 61>>
    /\ last.out = ErrAbout("KmsDecryption", "Failed to decode ciphertext",
                           "InvalidLastSymbol")

\* the identifying fields in the order validate_config reads them, and what
\* the error says of each
ConfigFields == <<"project_id", "location", "key_ring", "key_name", "key_version">>
ConfigMessages ==
    <<"Project ID cannot be empty", "Location cannot be empty",
      "Key ring cannot be empty", "Key name cannot be empty",
      "Key version cannot be empty">>

\* C30: validate_config returns Ok exactly when the five identifying fields
\* are all non-empty, and otherwise a Configuration error that names the
\* first empty field in the order project id, location, key ring, key name,
\* key version.
C30_ValidateConfigNamesFirstEmptyField ==
    last.op = "KmsClient::validate_config"
    => LET empty == {i \in 1..5 : last.client[ConfigFields[i]] = ""}
       IN  /\ last.out.ok <=> empty = {}
           /\ empty # {}
              => /\ last.out.kind = "Configuration"
                 /\ \E i \in empty :
                       /\ \A j \in empty : i <= j
                       /\ last.out.msg = ConfigMessages[i]

\* validate_config of a client with an empty location and an empty key
\* version named the location
C30_Witness ==
    /\ last.op = "KmsClient::validate_config"
    /\ last.client.project_id # "" /\ last.client.location = ""
    /\ last.client.key_version = ""
    /\ last.out = Err("Configuration", "Location cannot be empty")

-----------------------------------------------------------------------------
(* Further properties of the coordinator *)

\* the step is a dispatch of the caller (by = "caller") or of the event loop
\* (by = "loop") to a registered agent whose pipeline returned an error
FailedDispatch(by) ==
    IF by = "caller"
    THEN /\ \/ /\ last'.op = "process_prompt"
               /\ last'.agent_id \in DOMAIN prompt_agents
            \/ /\ last'.op = "process_response"
               /\ last'.agent_id \in DOMAIN response_agents
         /\ ~last'.out.ret.ok
    ELSE /\ last'.op = "event_loop"
         /\ \/ /\ last'.command.type = "ProcessPrompt"
               /\ last'.command.agent_id \in DOMAIN prompt_agents
            \/ /\ last'.command.type = "ProcessResponse"
               /\ last'.command.agent_id \in DOMAIN response_agents
         /\ ~last'.out.ret.ok

\* C27: a dispatch to a registered agent whose pipeline fails leaves both
\* registries as they were and the pending commands as they were (the event
\* loop had taken the one command it dispatched, and goes on receiving);
\* every dispatch returns after the step what it would have returned before
\* it, so that an input the agent accepts is still accepted.
C27_FailedDispatchAbortsOnlyItself ==
    [][(FailedDispatch("caller") \/ FailedDispatch("loop"))
       => /\ prompt_agents' = prompt_agents
          /\ response_agents' = response_agents
          /\ FailedDispatch("caller")
             => command_channel' = command_channel /\ receiver' = receiver
          /\ FailedDispatch("loop")
             => /\ command_channel' = command_channel /\ receiver' = "looping"
                /\ consumer' = Idle
          /\ \A agent_id \in Uuids, text \in Texts :
                /\ Coordinator_process_prompt(agent_id, text)'
                     = Coordinator_process_prompt(agent_id, text)
                /\ Coordinator_process_response(agent_id, text)'
                     = Coordinator_process_response(agent_id, text)]_vars

\* the event loop dispatched a command to a registered agent, the pipeline
\* rejected the empty text, a command is still pending, and the agent accepts the
\* plain text
C27_Witness ==
    /\ last.op = "event_loop"
    /\ last.command.type \in {"ProcessPrompt", "ProcessResponse"}
    /\ ~last.out.ret.ok
    /\ last.out.ret.msg \in {"Prompt cannot be empty", "Response cannot be empty"}
    /\ command_channel # <<>>
    /\ receiver = "looping"
    /\ IF last.command.type = "ProcessPrompt"
       THEN /\ last.command.agent_id \in DOMAIN prompt_agents
            /\ Coordinator_process_prompt(last.command.agent_id, PlainText).ret.ok
       ELSE /\ last.command.agent_id \in DOMAIN response_agents
            /\ Coordinator_process_response(last.command.agent_id, PlainText).ret.ok

-----------------------------------------------------------------------------
(* Properties of the identity manager *)

\* C24: check_permission of a session that authenticate has returned for a
\* created user, and that has neither expired nor been logged out, returns a
\* PermissionResult, allowed or denied, and no error.
C24_LiveSessionGetsPermissionResult ==
    (/\ last.op = "check_permission"
     /\ last.session_id \in DOMAIN sessions
     /\ now <= sessions[last.session_id].expires_at
     /\ \E name \in DOMAIN users : users[name].id = sessions[last.session_id].user_id)
    => /\ last.ret.ok
       /\ last.ret.value.allowed \in BOOLEAN

-----------------------------------------------------------------------------
(* Further properties of the escrow *)

\* C31: list_escrowed_keys and get_escrow_stats leave the store, the parties
\* and the threshold as they were; list_escrowed_keys returns the key ids
\* that have an entry, expired or not, each once.
C31_IntrospectionIsReadOnly ==
    [][/\ last'.op \in {"list_escrowed_keys", "get_escrow_stats"}
          => UNCHANGED <<authorized_parties, minimum_signatures, escrow_data>>
       /\ last'.op = "list_escrowed_keys"
          => /\ {last'.out[i] : i \in 1..Len(last'.out)} = DOMAIN escrow_data
             /\ Len(last'.out) = Cardinality(DOMAIN escrow_data)]_vars

\* the keys were listed of a store with two entries, one of them expired
C31_Witness ==
    /\ last.op = "list_escrowed_keys"
    /\ Len(last.out) = 2
    /\ \E k \in DOMAIN escrow_data : IsExpired(escrow_data[k], now)
    /\ \E k \in DOMAIN escrow_data : ~IsExpired(escrow_data[k], now)


\* the request names its key, its reason and its requester
FieldsGiven(request) ==
    request.key_id # "" /\ request.reason # "" /\ request.requester # ""

\* the request carries at least the threshold of signatures, all of them of
\* authorized parties
SignaturesSuffice(request) ==
    /\ Len(request.signatures) >= minimum_signatures
    /\ \A i \in 1..Len(request.signatures) :
          Contains(authorized_parties, request.signatures[i])

\* C32: recover_key reports the first check that fails in the order request
\* fields, entry exists, entry unexpired, signatures: a request with its
\* fields given against an expired entry gets the expiry error whatever its
\* signatures, and the audit record is written exactly when all checks have
\* passed and the key bytes are returned.
C32_RecoverChecksInOrder ==
    last.op = "recover_key"
    => LET request == last.request
           ret == last.out.ret
           exists == request.key_id \in DOMAIN escrow_data
       IN  /\ ~FieldsGiven(request)
              => ~ret.ok /\ ret.msg \in {"Key ID cannot be empty",
                                         "Recovery reason cannot be empty",
                                         "Requester cannot be empty"}
           /\ FieldsGiven(request) /\ ~exists
              => ~ret.ok /\ ret.msg = "Key not found in escrow"
           /\ FieldsGiven(request) /\ exists
              => IF IsExpired(escrow_data[request.key_id], now)
                 THEN ret = Err("Generic", "Escrowed key has expired")
                 ELSE IF ~SignaturesSuffice(request)
                 THEN ~ret.ok /\ ret.kind = "Authentication"
                 ELSE ret.ok
           /\ last.out.traced # <<>> <=> ret.ok
           /\ ret.ok => last.out.traced = <<audit_recovery(request)>>

\* a request signed by one party only, below the threshold of two, was made
\* for an expired entry and got the expiry error
C32_Witness ==
    /\ last.op = "recover_key"
    /\ FieldsGiven(last.request)
    /\ last.request.key_id \in DOMAIN escrow_data
    /\ IsExpired(escrow_data[last.request.key_id], now)
    /\ minimum_signatures = 2
    /\ last.request.signatures = <<"A">>
    /\ last.out.ret = Err("Generic", "Escrowed key has expired")


\* the authorized parties among the signers of the request, each once
AuthorizedSigners(request) ==
    {request.signatures[i] : i \in 1..Len(request.signatures)}
    \cap {authorized_parties[i] : i \in 1..Len(authorized_parties)}

\* C34: whenever recover_key is granted, the signatures of the request come
\* from at least minimum_signatures distinct authorized parties.
C34_GrantNeedsDistinctSigners ==
    (last.op = "recover_key" /\ last.out.ret.ok)
    => Cardinality(AuthorizedSigners(last.request)) >= minimum_signatures

\* C35: recover_key is never granted for a request without signatures, for
\* any escrow that KeyEscrow::new constructs.
C35_NoGrantWithoutSignatures ==
    (last.op = "recover_key" /\ last.request.signatures = <<>>)
    => ~last.out.ret.ok

\* C39 as claimed: a request whose signatures are insufficient or name an
\* unauthorized signer gets the same outcome for every key id it could name,
\* whether that key has an entry or not and whether the entry has expired.
C39_OutcomeHidesExistenceAndExpiry ==
    (/\ last.op = "recover_key"
     /\ FieldsGiven(last.request)
     /\ ~SignaturesSuffice(last.request))
    => \A k \in EscrowKeyIds :
          KeyEscrow_recover_key([last.request EXCEPT !.key_id = k], now).ret.msg
            = last.out.ret.msg

\* C39 as amended: a request whose signatures are insufficient or name an
\* unauthorized signer is never granted and leaves no audit record; with its
\* fields given it gets the not-found error when the key has no entry, the
\* expiry error when the entry has expired, and the error of the signature
\* check only when the entry exists and has not expired.
C39_UnauthorizedRequestLearnsStateOnly ==
    (last.op = "recover_key" /\ ~SignaturesSuffice(last.request))
    => /\ ~last.out.ret.ok
       /\ last.out.traced = <<>>
       /\ FieldsGiven(last.request)
          => LET k == last.request.key_id
             IN  /\ last.out.ret.msg = "Key not found in escrow"
                    <=> k \notin DOMAIN escrow_data
                 /\ last.out.ret.msg = "Escrowed key has expired"
                    <=> (k \in DOMAIN escrow_data /\ IsExpired(escrow_data[k], now))
                 /\ last.out.ret.msg \in {"Insufficient signatures", "Unauthorized signer"}
                    <=> (k \in DOMAIN escrow_data /\ ~IsExpired(escrow_data[k], now))

\* a request signed by an outsider named a key that has an unexpired entry,
\* beside a key that has none, and got the error of the signature check
C39_Witness ==
    /\ last.op = "recover_key"
    /\ FieldsGiven(last.request)
    /\ last.request.signatures = <<"A", "D">>
    /\ last.request.key_id \in DOMAIN escrow_data
    /\ ~IsExpired(escrow_data[last.request.key_id], now)
    /\ EscrowKeyIds \ DOMAIN escrow_data # {}
    /\ last.out.ret.msg = "Unauthorized signer"

-----------------------------------------------------------------------------
(* Further properties of the agents and their registries *)

\* C37: every agent stored in a registry holds as its own id the key it is
\* stored under, which is the id register_* returned to the registrant.
C37_RegistryKeyIsAgentId ==
    /\ \A k \in DOMAIN prompt_agents : prompt_agents[k].id = k
    /\ \A k \in DOMAIN response_agents : response_agents[k].id = k

\* C40: with encryption enabled, process_prompt returns for a valid prompt a
\* value that does not hold the plaintext prompt and that differs from what
\* an agent differing in the encryption flag alone returns for it.
C40_EncryptedResultDiffersFromPlain ==
    (/\ last.op = "PromptAgent::process_prompt"
     /\ last.agent.encryption_enabled
     /\ last.out.ret.ok)
    => /\ last.out.ret.value.body # last.text
       /\ last.out.ret.value
            # PromptAgent_process_prompt(
                  [last.agent EXCEPT !.encryption_enabled = FALSE], last.text).ret.value

-----------------------------------------------------------------------------
(* Properties of the coordinator's locks *)

\* the loop has asked for the write guard of the registry and waits for it
WriterWaits(registry) ==
    /\ consumer.pc = "write_wait"
    /\ RegistryOf(consumer.command.type) = registry

\* the registry behind a lock
Guarded(registry) == IF registry = "prompt" THEN prompt_agents ELSE response_agents

\* the holders of a read guard of the registry: tasks and the loop inside a
\* dispatch
Readers(registry) ==
    {task \in Tasks : /\ dispatches[task].pc = "in_pipeline"
                      /\ RegistryOf(dispatches[task].call.op) = registry}
    \cup {who \in {"loop"} : /\ consumer.pc = "in_pipeline"
                             /\ RegistryOf(consumer.command.type) = registry}

\* C33: a dispatch takes only the read guard of its registry, and the read
\* guards handed out are as many as the dispatches inside their pipelines; the
\* write guard is held only by the loop, only for the insert of the
\* registration it applies, and never while a read guard of that registry is
\* held; a registry changes only in the step that holds its write guard and
\* gives it back.
C33_RegistrationExcludesDispatch ==
    [][/\ \A registry \in Registries :
            /\ read_guards[registry] = Cardinality(Readers(registry))
            /\ write_guard[registry] =>
                  /\ read_guards[registry] = 0
                  /\ consumer.pc = "inserting"
                  /\ RegistryOf(consumer.command.type) = registry
            /\ write_guard'[registry] => read_guards'[registry] = 0
            /\ Guarded(registry)' # Guarded(registry) =>
                  /\ write_guard[registry]
                  /\ ~write_guard'[registry]
                  /\ Readers(registry) = {}
       /\ dispatches' # dispatches => write_guard' = write_guard]_vars

\* every task is inside its pipeline on one registry while the loop waits to
\* apply a registration to that registry
C33_Witness ==
    \E registry \in Registries :
        /\ read_guards[registry] = Cardinality(Tasks)
        /\ \A task \in Tasks : dispatches[task].pc = "in_pipeline"
        /\ WriterWaits(registry)

\* a Shutdown command is queued for the running loop
ShutdownQueued ==
    /\ receiver = "looping"
    /\ \E i \in 1..Len(command_channel) : command_channel[i].type = "Shutdown"

\* C38: the loop holds no write guard when it receives a command nor when it
\* asks for a read guard; with the loop and the dispatches of the tasks
\* scheduled fairly, the handling of every received command finishes, and a
\* queued Shutdown is reached: the loop has then received every command that
\* was queued ahead of it.
C38_LoopReachesShutdown ==
    /\ [](consumer.pc \in {"idle", "read_wait"} =>
             \A registry \in Registries : ~write_guard[registry])
    /\ (consumer # Idle) ~> (consumer = Idle)
    /\ ShutdownQueued ~> (receiver = "dropped")

\* the loop waits for the write guard of a registry that a task reads, a
\* Shutdown queued behind the registration it applies
C38_Witness ==
    /\ ShutdownQueued
    /\ \E registry \in Registries :
          /\ WriterWaits(registry)
          /\ read_guards[registry] > 0

\* a register_* call has just returned Ok(id) to its caller, the loop running
RegisteredOk(id) ==
    /\ last.op \in {"register_prompt_agent", "register_response_agent"}
    /\ last.ret.ok
    /\ last.ret.value = id
    /\ receiver = "looping"

\* a dispatch for the id finds an agent
Present(id) == id \in (DOMAIN prompt_agents) \cup (DOMAIN response_agents)

\* C36: with the loop scheduled fairly, the agent of every register_* call
\* that returned Ok(id) while the loop was running is in its registry from
\* some moment on, also when a Shutdown was queued ahead of the registration.
C36_RegisteredAgentAppears ==
    \A id \in Uuids : [](RegisteredOk(id) => <>[]Present(id))

=============================================================================
